---------------------------- MODULE Spec2Model ----------------------------
(***************************************************************************)
(* A model of the request layer of paypal-rs: the order operations of      *)
(* src/src/orders.rs (create_order, show_order_details, capture_order,     *)
(* authorize_order, update_order) and the webhook signature verification   *)
(* of src/src/webhooks.rs (verify_signature).                              *)
(*                                                                         *)
(* One Client is modelled.  Every operation takes `&mut self`, builds one  *)
(* request, hands it to the transport and suspends; the transport then     *)
(* either fails or delivers a response (a status and a body), and the      *)
(* operation computes its result from that response.                       *)
(*                                                                         *)
(* JSON text is modelled structurally.  A JSON object is a record holding  *)
(* exactly the fields that are present.  The PATCH body of update_order,   *)
(* which the code assembles by string formatting, is a sequence of tokens: *)
(* "[", ",", "]" and one token per formatted `{ "op": .. }` object, so     *)
(* that the placement of brackets and commas is part of the model.         *)
(* Insignificant white space of the format strings is left out.            *)
(***************************************************************************)
EXTENDS Integers, Sequences, FiniteSets, TLC

(* ------------------------------ bounds --------------------------------- *)

\* the longest purchase-unit list handed to an operation
MaxUnits == 2

\* the number of calls made on the client in one behaviour
MaxCalls == 2

(* ------------------------------ Option --------------------------------- *)

None == [some |-> FALSE]

Some(v) == [some |-> TRUE, value |-> v]

is_some(o) == o.some

\* Option::unwrap_or_else(|| d)
unwrap_or_else(o, d) == IF o.some THEN o.value ELSE d

(* ------------------------- enums and their tokens ---------------------- *)

\* orders.rs: enum Intent
Intent == {"Capture", "Authorize"}

\* serde(rename_all = "SCREAMING_SNAKE_CASE") on Intent
IntentToken == [Capture |-> "CAPTURE", Authorize |-> "AUTHORIZE"]

\* orders.rs: enum OrderStatus
OrderStatus == {"Created", "Saved", "Approved", "Voided", "Completed"}

\* serde(rename_all = "SCREAMING_SNAKE_CASE") on OrderStatus
OrderStatusToken ==
    [Created |-> "CREATED", Saved |-> "SAVED", Approved |-> "APPROVED",
     Voided |-> "VOIDED", Completed |-> "COMPLETED"]

\* webhooks.rs: enum VerificationStatus
VerificationStatus == {"Success", "Failure"}

\* serde(rename_all = "SCREAMING_SNAKE_CASE") on VerificationStatus
VerificationStatusToken == [Success |-> "SUCCESS", Failure |-> "FAILURE"]

\* The result of a decoding step.
DecodeOk(v) == [ok |-> TRUE, value |-> v]

DecodeErr == [ok |-> FALSE]

\* Deserialize of a unit-variant enum: the string must be, exactly and case
\* sensitively, the token of one variant of the table.
DeserializeEnum(table, s) ==
    IF \E v \in DOMAIN table : table[v] = s
    THEN DecodeOk(CHOOSE v \in DOMAIN table : table[v] = s)
    ELSE DecodeErr


(* ------------------------------ data model ----------------------------- *)

\* The reference ids a caller gives its purchase units.
ReferenceIds == {"r1", "r2"}

\* orders.rs: struct Amount, built as Amount::new(currency, value): no
\* breakdown.
Amounts == {[currency_code |-> "USD", value |-> "10.00", breakdown |-> None]}

\* orders.rs: struct PurchaseUnit, built as PurchaseUnit::new(amount) with the
\* reference id set or left out; the other optional fields stay None.
PurchaseUnits ==
    [reference_id : {None} \cup {Some(r) : r \in ReferenceIds}, amount : Amounts]

\* Vec<PurchaseUnit> of at most MaxUnits elements
PurchaseUnitLists ==
    UNION {[1..n -> PurchaseUnits] : n \in 0..MaxUnits}

\* orders.rs: struct OrderPayload, built as OrderPayload::new(intent, units)
OrderPayloads == [intent : Intent, purchase_units : PurchaseUnitLists]

\* Serialize of Amount under skip_serializing_none: breakdown is left out when
\* it is None.
ToJsonAmount(a) ==
    IF is_some(a.breakdown)
    THEN [currency_code |-> a.currency_code, value |-> a.value,
          breakdown |-> a.breakdown.value]
    ELSE [currency_code |-> a.currency_code, value |-> a.value]

\* Serialize of PurchaseUnit under skip_serializing_none: reference_id is
\* written only when it is Some.
ToJsonPurchaseUnit(unit) ==
    IF is_some(unit.reference_id)
    THEN [reference_id |-> unit.reference_id.value,
          amount |-> ToJsonAmount(unit.amount)]
    ELSE [amount |-> ToJsonAmount(unit.amount)]

\* Serialize of OrderPayload: intent as its token, the units in order.
ToJsonOrderPayload(order) ==
    [intent |-> IntentToken[order.intent],
     purchase_units |->
        [i \in 1..Len(order.purchase_units) |->
            ToJsonPurchaseUnit(order.purchase_units[i])]]

(* ------------------- update_order: the PATCH body ---------------------- *)

\* tokens of the formatted text
LBracket == [t |-> "["]

RBracket == [t |-> "]"]

Comma == [t |-> ","]

\* the text `{ "op": "replace", "path": "<path>", "value": <value> }`
ReplaceOp(path, value) ==
    [t |-> "object", op |-> "replace", path |-> path, value |-> value]

\* the first format! of the loop body: one replace operation for a unit,
\* addressed by its reference id or by 'default'
unit_json(unit) ==
    ReplaceOp("/purchase_units/@reference_id='"
                  \o unwrap_or_else(unit.reference_id, "default") \o "'",
              ToJsonPurchaseUnit(unit))

\* the for loop over p_units.iter().enumerate(); i is the 0-based index of
\* the next unit and acc the text pushed so far.  A comma follows every unit
\* but the last (i < p_units.len() - 1).
RECURSIVE units_loop(_, _, _)
units_loop(p_units, i, acc) ==
    IF i >= Len(p_units)
    THEN acc
    ELSE units_loop(p_units, i + 1,
             acc \o <<unit_json(p_units[i + 1])>>
                 \o (IF i < Len(p_units) - 1 THEN <<Comma>> ELSE <<>>))

\* a - b in usize: the difference, or an overflow when b exceeds a
usize_sub(a, b) ==
    IF a >= b THEN [overflow |-> FALSE, value |-> a - b]
    ELSE [overflow |-> TRUE]

\* a variant of units_loop_panics in which the index of the last unit,
\* p_units.len() - 1, is computed once before the loop
units_loop_panics_hoisted(p_units, i, overflow_checks) ==
    overflow_checks /\ usize_sub(Len(p_units), 1).overflow

\* the loop panics: some iteration from the i-th on evaluates
\* p_units.len() - 1 with a length of 0, in a build with overflow checks
\* (without them the difference wraps to usize::MAX and nothing panics).
\* The subtraction stands in the loop body, so it is evaluated once per
\* unit and never for an empty list.
RECURSIVE units_loop_panics(_, _, _)
units_loop_panics(p_units, i, overflow_checks) ==
    IF i >= Len(p_units)
    THEN FALSE
    ELSE \/ overflow_checks /\ usize_sub(Len(p_units), 1).overflow
         \/ units_loop_panics(p_units, i + 1, overflow_checks)

\* update_order panics before it sends
update_order_panics(purchase_units, overflow_checks) ==
    is_some(purchase_units)
        /\ units_loop_panics(purchase_units.value, 0, overflow_checks)

\* the `units_json` declared inside `if let Some(p_units)`: the text of the
\* unit operations, built by the loop
block_units_json(purchase_units) ==
    IF is_some(purchase_units)
    THEN units_loop(purchase_units.value, 0, <<>>)
    ELSE <<>>

\* the `units_json` of the function body.  It is bound once, immutably, to
\* String::new(); the loop pushes to the binding of the same name declared
\* inside the if-let block, which goes out of scope at the end of the block.
units_json(purchase_units) ==
    LET shadowed == block_units_json(purchase_units)
    IN  <<>>

\* a variant of intent_str with the two arms of the match exchanged
intent_str_swapped(x) ==
    CASE x = "Authorize" -> "CAPTURE"
      [] x = "Capture" -> "AUTHORIZE"

\* match x { Authorize => "AUTHORIZE", Capture => "CAPTURE" }
intent_str(x) ==
    CASE x = "Authorize" -> "AUTHORIZE"
      [] x = "Capture" -> "CAPTURE"

\* intent_json: empty, or the replace operation on /intent
intent_json(intent) ==
    IF is_some(intent)
    THEN <<ReplaceOp("/intent", intent_str(intent.value))>>
    ELSE <<>>

\* a variant of final_json that writes no array when there is nothing to
\* update
final_json_skip_empty(ij, uj) ==
    IF Len(ij) = 0 /\ Len(uj) = 0
    THEN <<>>
    ELSE IF Len(ij) # 0 /\ Len(uj) # 0
    THEN <<LBracket>> \o ij \o <<Comma>> \o uj \o <<RBracket>>
    ELSE <<LBracket>> \o ij \o uj \o <<RBracket>>

\* final_json: "[{},{}]" when both texts are non-empty, else "[{}{}]"
final_json(ij, uj) ==
    IF Len(ij) # 0 /\ Len(uj) # 0
    THEN <<LBracket>> \o ij \o <<Comma>> \o uj \o <<RBracket>>
    ELSE <<LBracket>> \o ij \o uj \o <<RBracket>>

\* the body update_order sends for its arguments
PatchBody(intent, purchase_units) ==
    final_json(intent_json(intent), units_json(purchase_units))


(* ------------------------- client collaborators ------------------------ *)

\* client::HeaderParams: the header values a caller may supply, each
\* optional; Default::default() leaves every one of them None.
HeaderParamsDefault == [content_type |-> None, request_id |-> None]

\* the header parameters callers pass in
HeaderParams ==
    [content_type : {None, Some("text/plain")},
     request_id : {None, Some("req-1")}]

\* Client::endpoint(): the base URL of the environment the client was
\* built for
endpoint(is_live) ==
    IF is_live THEN "https://api.paypal.com"
    ELSE "https://api.sandbox.paypal.com"

\* the ids of the orders callers name
OrderIds == {"5O190127TN364715T", "8XY"}

(* ------------------------------ webhooks ------------------------------- *)

\* webhooks.rs: struct WebhookVerificationPayload<T>
WebhookVerificationPayloads ==
    [transmission_id : {"t-1"}, transmission_time : {"2021-01-01T00:00:00Z"},
     cert_url : {"https://cert"}, auth_algo : {"SHA256withRSA"},
     transmission_sig : {"sig-good", "sig-forged"}, webhook_id : {"wh-1"},
     webhook_event : {[id |-> "ev-1"]}]

\* Serialize of WebhookVerificationPayload: every field is required and is
\* written under its own name.
ToJsonWebhookVerificationPayload(signature) ==
    [transmission_id |-> signature.transmission_id,
     transmission_time |-> signature.transmission_time,
     cert_url |-> signature.cert_url,
     auth_algo |-> signature.auth_algo,
     transmission_sig |-> signature.transmission_sig,
     webhook_id |-> signature.webhook_id,
     webhook_event |-> signature.webhook_event]

(* ------------------------------ JSON values --------------------------- *)

JStr(s) == [j |-> "string", s |-> s]

JNull == [j |-> "null"]

JBool(b) == [j |-> "bool", b |-> b]

\* a number without fraction or exponent, within the range of i64
JNum(n) == [j |-> "number", n |-> n]

JArr(items) == [j |-> "array", items |-> items]

\* an object: a function from the names of the members present to their
\* values, and the names that the text writes a second time (none)
JObj(fields) == [j |-> "object", fields |-> fields, twice |-> {}]

\* the object whose text writes the members of these names a second time.
\* What the second writing holds is not kept: a derived decoder fails at the
\* name of a declared member that comes again and skips every member that
\* is not declared, and reads the value in neither case.
Repeating(obj, names) == [obj EXCEPT !.twice = names]

(* ------------------------------ responses ------------------------------ *)

\* A response body is JSON text, holding an object or an array, or text that
\* is not JSON at all (an empty body, an HTML error page).
JsonObject(f) == JObj(f)

NotJson == [j |-> "invalid"]

\* bodies the provider (or anything between it and the client) may send
OrderBodies ==
    {JsonObject([id |-> JStr("5O190127TN364715T"), status |-> JStr("CREATED"),
                 links |-> JArr(<<>>)]),
     JsonObject([id |-> JStr("5O190127TN364715T"), status |-> JStr("COMPLETED"),
                 intent |-> JStr("CAPTURE"), links |-> JArr(<<>>)]),
     JsonObject([id |-> JStr("8XY"), status |-> JStr("APPROVED"),
                 intent |-> JStr("AUTHORIZE"), links |-> JArr(<<>>)]),
     JsonObject([id |-> JStr("8XY"), status |-> JStr("APPROVED"),
                 create_time |-> JStr("2021-01-01T00:00:00Z"),
                 payer |-> JObj([email_address |-> JStr("a@b.c")]),
                 purchase_units |-> JArr(<<>>),
                 links |-> JArr(<<>>)]),
     JsonObject([id |-> JStr("8XY"), status |-> JStr("COMPLETED"),
                 create_time |-> JStr("\f2021-06-30T10:00:00\\u221202:00"),
                 links |-> JArr(<<>>)]),
     Repeating(JsonObject([id |-> JStr("8XY"), status |-> JStr("VOIDED"),
                           links |-> JArr(<<>>), note |-> JStr("n")]),
               {"note"})}

\* bodies that are not an Order: a token no variant has, a required member
\* missing, a declared member of another type or written twice
MalformedOrderBodies ==
    {JsonObject([id |-> JStr("8XY"), status |-> JStr("PENDING"), links |-> JArr(<<>>)]),
     JsonObject([id |-> JStr("8XY"), status |-> JStr("Created"), links |-> JArr(<<>>)]),
     JsonObject([status |-> JStr("CREATED"), links |-> JArr(<<>>)]),
     JsonObject([id |-> JStr("8XY"), status |-> JStr("CREATED")]),
     JsonObject([id |-> JStr("8XY"), status |-> JStr("CREATED"),
                 intent |-> JStr("SALE"), links |-> JArr(<<>>)]),
     JsonObject([id |-> JStr("8XY"), status |-> JStr("CREATED"),
                 links |-> JArr(<<>>), payer |-> JStr("x")]),
     JsonObject([id |-> JStr("8XY"), status |-> JStr("CREATED"),
                 links |-> JArr(<<>>), purchase_units |-> JStr("x")]),
     JsonObject([id |-> JStr("8XY"), status |-> JStr("CREATED"),
                 links |-> JArr(<<>>), create_time |-> JStr("yesterday")]),
     JsonObject([id |-> JStr("8XY"), status |-> JStr("CREATED"),
                 links |-> JStr("x")]),
     JsonObject([id |-> JArr(<<>>), status |-> JStr("CREATED"),
                 links |-> JArr(<<>>)]),
     Repeating(JsonObject([id |-> JStr("8XY"), status |-> JStr("CREATED"),
                           links |-> JArr(<<>>)]),
               {"id"})}

ErrorBodies ==
    {JsonObject([name |-> JStr("UNPROCESSABLE_ENTITY"),
                 message |-> JStr("The requested action could not be performed"),
                 debug_id |-> JStr("d-1")]),
     JsonObject([name |-> JStr("RESOURCE_NOT_FOUND"),
                 message |-> JStr("The specified resource does not exist"),
                 debug_id |-> JStr("d-2")])}

MalformedErrorBodies ==
    {JsonObject([error |-> JStr("invalid_client")]),
     Repeating(JsonObject([name |-> JStr("RESOURCE_NOT_FOUND"),
                           message |-> JStr("The specified resource does not exist"),
                           debug_id |-> JStr("d-2")]),
               {"name"})}

\* bodies that are a Verification: the object the provider documents
VerificationBodies ==
    {JsonObject([verification_status |-> JStr("SUCCESS")]),
     JsonObject([verification_status |-> JStr("FAILURE")])}

\* bodies that are not the documented object: the struct as the array of
\* its fields, and the variant as an object with the token for its one
\* member
PositionalVerificationBodies ==
    {JArr(<<JStr("SUCCESS")>>),
     JArr(<<JStr("FAILURE")>>),
     JsonObject([verification_status |-> JObj([FAILURE |-> JNull])])}

MalformedVerificationBodies ==
    {JsonObject([verification_status |-> JStr("success")]),
     JsonObject([verification_status |-> JStr("Success")]),
     JsonObject([verification_status |-> JStr("PENDING")]),
     Repeating(JsonObject([verification_status |-> JStr("SUCCESS")]),
               {"verification_status"}),
     JArr(<<JStr("Failure")>>),
     JArr(<<JStr("SUCCESS"), JStr("SUCCESS")>>),
     JArr(<<>>),
     JStr("SUCCESS")}

Bodies ==
    OrderBodies \cup MalformedOrderBodies \cup ErrorBodies
        \cup MalformedErrorBodies \cup VerificationBodies
        \cup PositionalVerificationBodies
        \cup MalformedVerificationBodies \cup {NotJson}

\* status codes, with both edges of the 2xx range
Statuses == {199, 200, 201, 299, 300, 422, 500}

\* StatusCode::is_success(), as used in `if res.status().is_success()`
is_success(status) == 200 <= status /\ status < 300

(* ------------------- enums: names and serde renaming ------------------- *)

\* The enum types of orders.rs, capture.rs and webhooks.rs: the rename_all
\* attribute each one carries ("None" when it carries none) and its variants.
Enums ==
    [Intent |->
        [rename_all |-> "SCREAMING_SNAKE_CASE",
         variants |->
             {"Capture", "Authorize"}],
     TaxIdType |->
        [rename_all |-> "SCREAMING_SNAKE_CASE",
         variants |->
             {"BR_CPF", "BR_CNPJ"}],
     DisbursementMode |->
        [rename_all |-> "None",
         variants |->
             {"Instant", "Delayed"}],
     ItemCategoryType |->
        [rename_all |-> "SCREAMING_SNAKE_CASE",
         variants |->
             {"Digital", "Physical"}],
     AuthorizationStatus |->
        [rename_all |-> "SCREAMING_SNAKE_CASE",
         variants |->
             {"Created", "Captured", "Denied", "Expired",
             "PartiallyExpired", "PartiallyCaptured", "Voided", "Pending"}],
     AuthorizationStatusDetailsReason |->
        [rename_all |-> "SCREAMING_SNAKE_CASE",
         variants |->
             {"PendingReview"}],
     CaptureStatus |->
        [rename_all |-> "SCREAMING_SNAKE_CASE",
         variants |->
             {"Completed", "Declined", "PartiallyRefunded", "Pending",
             "Refunded"}],
     CaptureStatusDetailsReason |->
        [rename_all |-> "SCREAMING_SNAKE_CASE",
         variants |->
             {"BuyerComplaint", "Chargeback", "Echeck",
             "InternationalWithdrawal", "Other", "PendingReview",
             "ReceivingPreferenceMandatesManualAction", "Refunded",
             "TransactionApprovedAwaitingFunding", "Unilateral",
             "VerificationRequired"}],
     RefundStatus |->
        [rename_all |-> "SCREAMING_SNAKE_CASE",
         variants |->
             {"Cancelled", "Pending", "Completed"}],
     RefundStatusDetailsReason |->
        [rename_all |-> "SCREAMING_SNAKE_CASE",
         variants |->
             {"Echeck"}],
     LandingPage |->
        [rename_all |-> "SCREAMING_SNAKE_CASE",
         variants |->
             {"Login", "Billing", "NoPreference"}],
     ShippingPreference |->
        [rename_all |-> "SCREAMING_SNAKE_CASE",
         variants |->
             {"GetFromFile", "NoShipping", "SetProvidedAddress"}],
     UserAction |->
        [rename_all |-> "SCREAMING_SNAKE_CASE",
         variants |->
             {"Continue", "PayNow"}],
     PayeePreferred |->
        [rename_all |-> "SCREAMING_SNAKE_CASE",
         variants |->
             {"Unrestricted", "ImmediatePaymentRequired"}],
     CardBrand |->
        [rename_all |-> "SCREAMING_SNAKE_CASE",
         variants |->
             {"Visa", "Mastercard", "Discover", "Amex", "Solo", "JCB",
             "Star", "Delta", "Switch", "Maestro", "CbNationale",
             "Configoga", "Confidis", "Electron", "Cetelem",
             "ChinaUnionPay"}],
     CardType |->
        [rename_all |-> "SCREAMING_SNAKE_CASE",
         variants |->
             {"Credit", "Debit", "Prepaid", "Unknown"}],
     OrderStatus |->
        [rename_all |-> "SCREAMING_SNAKE_CASE",
         variants |->
             {"Created", "Saved", "Approved", "Voided", "Completed"}],
     SellerProtectionStatus |->
        [rename_all |-> "SCREAMING_SNAKE_CASE",
         variants |->
             {"Eligable"}],
     VerificationStatus |->
        [rename_all |-> "SCREAMING_SNAKE_CASE",
         variants |->
             {"Success", "Failure"}]]

EnumTypes == DOMAIN Enums

\* the identifier of every variant, character by character
Spelling ==
    [Capture |->
         <<"C", "a", "p", "t", "u", "r", "e">>,
     Authorize |->
         <<"A", "u", "t", "h", "o", "r", "i", "z", "e">>,
     BR_CPF |->
         <<"B", "R", "_", "C", "P", "F">>,
     BR_CNPJ |->
         <<"B", "R", "_", "C", "N", "P", "J">>,
     Instant |->
         <<"I", "n", "s", "t", "a", "n", "t">>,
     Delayed |->
         <<"D", "e", "l", "a", "y", "e", "d">>,
     Digital |->
         <<"D", "i", "g", "i", "t", "a", "l">>,
     Physical |->
         <<"P", "h", "y", "s", "i", "c", "a", "l">>,
     Created |->
         <<"C", "r", "e", "a", "t", "e", "d">>,
     Captured |->
         <<"C", "a", "p", "t", "u", "r", "e", "d">>,
     Denied |->
         <<"D", "e", "n", "i", "e", "d">>,
     Expired |->
         <<"E", "x", "p", "i", "r", "e", "d">>,
     PartiallyExpired |->
         <<"P", "a", "r", "t", "i", "a", "l", "l", "y", "E", "x", "p",
         "i", "r", "e", "d">>,
     PartiallyCaptured |->
         <<"P", "a", "r", "t", "i", "a", "l", "l", "y", "C", "a", "p",
         "t", "u", "r", "e", "d">>,
     Voided |->
         <<"V", "o", "i", "d", "e", "d">>,
     Pending |->
         <<"P", "e", "n", "d", "i", "n", "g">>,
     PendingReview |->
         <<"P", "e", "n", "d", "i", "n", "g", "R", "e", "v", "i", "e",
         "w">>,
     Completed |->
         <<"C", "o", "m", "p", "l", "e", "t", "e", "d">>,
     Declined |->
         <<"D", "e", "c", "l", "i", "n", "e", "d">>,
     PartiallyRefunded |->
         <<"P", "a", "r", "t", "i", "a", "l", "l", "y", "R", "e", "f",
         "u", "n", "d", "e", "d">>,
     Refunded |->
         <<"R", "e", "f", "u", "n", "d", "e", "d">>,
     BuyerComplaint |->
         <<"B", "u", "y", "e", "r", "C", "o", "m", "p", "l", "a", "i",
         "n", "t">>,
     Chargeback |->
         <<"C", "h", "a", "r", "g", "e", "b", "a", "c", "k">>,
     Echeck |->
         <<"E", "c", "h", "e", "c", "k">>,
     InternationalWithdrawal |->
         <<"I", "n", "t", "e", "r", "n", "a", "t", "i", "o", "n", "a",
         "l", "W", "i", "t", "h", "d", "r", "a", "w", "a", "l">>,
     Other |->
         <<"O", "t", "h", "e", "r">>,
     ReceivingPreferenceMandatesManualAction |->
         <<"R", "e", "c", "e", "i", "v", "i", "n", "g", "P", "r", "e",
         "f", "e", "r", "e", "n", "c", "e", "M", "a", "n", "d", "a", "t",
         "e", "s", "M", "a", "n", "u", "a", "l", "A", "c", "t", "i", "o",
         "n">>,
     TransactionApprovedAwaitingFunding |->
         <<"T", "r", "a", "n", "s", "a", "c", "t", "i", "o", "n", "A",
         "p", "p", "r", "o", "v", "e", "d", "A", "w", "a", "i", "t", "i",
         "n", "g", "F", "u", "n", "d", "i", "n", "g">>,
     Unilateral |->
         <<"U", "n", "i", "l", "a", "t", "e", "r", "a", "l">>,
     VerificationRequired |->
         <<"V", "e", "r", "i", "f", "i", "c", "a", "t", "i", "o", "n",
         "R", "e", "q", "u", "i", "r", "e", "d">>,
     Cancelled |->
         <<"C", "a", "n", "c", "e", "l", "l", "e", "d">>,
     Login |->
         <<"L", "o", "g", "i", "n">>,
     Billing |->
         <<"B", "i", "l", "l", "i", "n", "g">>,
     NoPreference |->
         <<"N", "o", "P", "r", "e", "f", "e", "r", "e", "n", "c", "e">>,
     GetFromFile |->
         <<"G", "e", "t", "F", "r", "o", "m", "F", "i", "l", "e">>,
     NoShipping |->
         <<"N", "o", "S", "h", "i", "p", "p", "i", "n", "g">>,
     SetProvidedAddress |->
         <<"S", "e", "t", "P", "r", "o", "v", "i", "d", "e", "d", "A",
         "d", "d", "r", "e", "s", "s">>,
     Continue |->
         <<"C", "o", "n", "t", "i", "n", "u", "e">>,
     PayNow |->
         <<"P", "a", "y", "N", "o", "w">>,
     Unrestricted |->
         <<"U", "n", "r", "e", "s", "t", "r", "i", "c", "t", "e", "d">>,
     ImmediatePaymentRequired |->
         <<"I", "m", "m", "e", "d", "i", "a", "t", "e", "P", "a", "y",
         "m", "e", "n", "t", "R", "e", "q", "u", "i", "r", "e", "d">>,
     Visa |->
         <<"V", "i", "s", "a">>,
     Mastercard |->
         <<"M", "a", "s", "t", "e", "r", "c", "a", "r", "d">>,
     Discover |->
         <<"D", "i", "s", "c", "o", "v", "e", "r">>,
     Amex |->
         <<"A", "m", "e", "x">>,
     Solo |->
         <<"S", "o", "l", "o">>,
     JCB |->
         <<"J", "C", "B">>,
     Star |->
         <<"S", "t", "a", "r">>,
     Delta |->
         <<"D", "e", "l", "t", "a">>,
     Switch |->
         <<"S", "w", "i", "t", "c", "h">>,
     Maestro |->
         <<"M", "a", "e", "s", "t", "r", "o">>,
     CbNationale |->
         <<"C", "b", "N", "a", "t", "i", "o", "n", "a", "l", "e">>,
     Configoga |->
         <<"C", "o", "n", "f", "i", "g", "o", "g", "a">>,
     Confidis |->
         <<"C", "o", "n", "f", "i", "d", "i", "s">>,
     Electron |->
         <<"E", "l", "e", "c", "t", "r", "o", "n">>,
     Cetelem |->
         <<"C", "e", "t", "e", "l", "e", "m">>,
     ChinaUnionPay |->
         <<"C", "h", "i", "n", "a", "U", "n", "i", "o", "n", "P", "a",
         "y">>,
     Credit |->
         <<"C", "r", "e", "d", "i", "t">>,
     Debit |->
         <<"D", "e", "b", "i", "t">>,
     Prepaid |->
         <<"P", "r", "e", "p", "a", "i", "d">>,
     Unknown |->
         <<"U", "n", "k", "n", "o", "w", "n">>,
     Saved |->
         <<"S", "a", "v", "e", "d">>,
     Approved |->
         <<"A", "p", "p", "r", "o", "v", "e", "d">>,
     Eligable |->
         <<"E", "l", "i", "g", "a", "b", "l", "e">>,
     Success |->
         <<"S", "u", "c", "c", "e", "s", "s">>,
     Failure |->
         <<"F", "a", "i", "l", "u", "r", "e">>]

\* char::is_uppercase on the characters identifiers are made of
is_uppercase(ch) ==
    ch \in {"A", "B", "C", "D", "E", "F", "G", "H", "I", "J", "K", "L", "M",
            "N", "O", "P", "Q", "R", "S", "T", "U", "V", "W", "X", "Y", "Z"}

Lowercase ==
    [A |-> "a", B |-> "b", C |-> "c", D |-> "d", E |-> "e", F |-> "f", G |-> "g",
     H |-> "h", I |-> "i", J |-> "j", K |-> "k", L |-> "l", M |-> "m", N |-> "n",
     O |-> "o", P |-> "p", Q |-> "q", R |-> "r", S |-> "s", T |-> "t", U |-> "u",
     V |-> "v", W |-> "w", X |-> "x", Y |-> "y", Z |-> "z"]

Uppercase ==
    [a |-> "A", b |-> "B", c |-> "C", d |-> "D", e |-> "E", f |-> "F", g |-> "G",
     h |-> "H", i |-> "I", j |-> "J", k |-> "K", l |-> "L", m |-> "M", n |-> "N",
     o |-> "O", p |-> "P", q |-> "Q", r |-> "R", s |-> "S", t |-> "T", u |-> "U",
     v |-> "V", w |-> "W", x |-> "X", y |-> "Y", z |-> "Z"]

\* char::to_ascii_lowercase
to_ascii_lowercase(ch) == IF ch \in DOMAIN Lowercase THEN Lowercase[ch] ELSE ch

\* char::to_ascii_uppercase
to_ascii_uppercase(ch) == IF ch \in DOMAIN Uppercase THEN Uppercase[ch] ELSE ch

\* serde's rename rule "snake_case" on a variant identifier: every upper-case
\* character but the first is preceded by '_', and every character is
\* lower-cased.  i is the position of the next character.
RECURSIVE SnakeCase(_, _)
SnakeCase(variant, i) ==
    IF i > Len(variant)
    THEN <<>>
    ELSE (IF i > 1 /\ is_uppercase(variant[i]) THEN <<"_">> ELSE <<>>)
             \o <<to_ascii_lowercase(variant[i])>>
             \o SnakeCase(variant, i + 1)

\* serde's rename rule "SCREAMING_SNAKE_CASE": the snake_case form,
\* upper-cased
ScreamingSnakeCase(variant) ==
    LET snake == SnakeCase(variant, 1)
    IN  [k \in 1..Len(snake) |-> to_ascii_uppercase(snake[k])]

\* the name a variant is given under the rename_all attribute of its enum;
\* without the attribute it keeps its identifier
apply_to_variant(rename_all, variant) ==
    IF rename_all = "SCREAMING_SNAKE_CASE"
    THEN ScreamingSnakeCase(variant)
    ELSE variant

\* the string made of the characters
RECURSIVE Join(_)
Join(chars) ==
    IF Len(chars) = 0 THEN "" ELSE Head(chars) \o Join(Tail(chars))

\* derive(Serialize) on a unit-variant enum: the variant is written as the
\* string of its (renamed) name
SerializeEnum(e, v) ==
    Join(apply_to_variant(Enums[e].rename_all, Spelling[v]))

\* the names an enum is read from: one per variant
EnumTokenTable(e) == [v \in Enums[e].variants |-> SerializeEnum(e, v)]

(* --------------------------- record types ------------------------------ *)

\* the types of fields
StringT == [k |-> "string"]

\* an enum of this repository
EnumT(name) == [k |-> "enum", name |-> name]

\* a struct of this repository
StructT(name) == [k |-> "struct", name |-> name]

\* Vec<elem>
VecT(elem) == [k |-> "vec", elem |-> elem]

\* chrono::DateTime<Utc>
DateTimeT == [k |-> "datetime"]

\* bool
BoolT == [k |-> "bool"]

\* i64
I64T == [k |-> "i64"]

\* a type of crate::common, or a generic parameter: its JSON form is carried
\* as it is
OpaqueT(name) == [k |-> "opaque", name |-> name]

\* a field of a struct: its identifier, its name in JSON (the identifier
\* unless #[serde(rename)] gives another), whether it is an Option, whether
\* it carries #[serde(default)], and the type (inside the Option)
Field(name, json, optional, default, type) ==
    [name |-> name, json |-> json, optional |-> optional,
     default |-> default, type |-> type]

\* The structs of orders.rs, capture.rs and webhooks.rs: whether the struct
\* carries #[skip_serializing_none], and its fields in declaration order.
Structs ==
    [PayerName |->
        [skip_none |-> FALSE,
         fields |->
             <<Field("given_name", "given_name", FALSE, FALSE,
                  StringT),
               Field("surname", "surname", FALSE, FALSE,
                  StringT)>>],
     PhoneNumber |->
        [skip_none |-> FALSE,
         fields |->
             <<Field("national_number", "national_number", FALSE, FALSE,
                  StringT)>>],
     Phone |->
        [skip_none |-> TRUE,
         fields |->
             <<Field("phone_type", "phone_type", TRUE, FALSE,
                  OpaqueT("PhoneType")),
               Field("phone_number", "phone_number", FALSE, FALSE,
                  StructT("PhoneNumber"))>>],
     TaxInfo |->
        [skip_none |-> FALSE,
         fields |->
             <<Field("tax_id", "tax_id", FALSE, FALSE,
                  StringT),
               Field("tax_id_type", "tax_id_type", FALSE, FALSE,
                  EnumT("TaxIdType"))>>],
     Payer |->
        [skip_none |-> TRUE,
         fields |->
             <<Field("name", "name", TRUE, FALSE,
                  StructT("PayerName")),
               Field("email_address", "email_address", TRUE, FALSE,
                  StringT),
               Field("payer_id", "payer_id", TRUE, FALSE,
                  StringT),
               Field("phone", "phone", TRUE, FALSE,
                  StructT("Phone")),
               Field("birth_date", "birth_date", TRUE, FALSE,
                  StringT),
               Field("tax_info", "tax_info", TRUE, FALSE,
                  StructT("TaxInfo")),
               Field("address", "address", TRUE, FALSE,
                  OpaqueT("Address"))>>],
     Breakdown |->
        [skip_none |-> TRUE,
         fields |->
             <<Field("item_total", "item_total", TRUE, FALSE,
                  OpaqueT("Money")),
               Field("shipping", "shipping", TRUE, FALSE,
                  OpaqueT("Money")),
               Field("handling", "handling", TRUE, FALSE,
                  OpaqueT("Money")),
               Field("tax_total", "tax_total", TRUE, FALSE,
                  OpaqueT("Money")),
               Field("insurance", "insurance", TRUE, FALSE,
                  OpaqueT("Money")),
               Field("shipping_discount", "shipping_discount", TRUE, FALSE,
                  OpaqueT("Money")),
               Field("discount", "discount", TRUE, FALSE,
                  OpaqueT("Money"))>>],
     Amount |->
        [skip_none |-> TRUE,
         fields |->
             <<Field("currency_code", "currency_code", FALSE, FALSE,
                  OpaqueT("Currency")),
               Field("value", "value", FALSE, FALSE,
                  StringT),
               Field("breakdown", "breakdown", TRUE, FALSE,
                  StructT("Breakdown"))>>],
     Payee |->
        [skip_none |-> TRUE,
         fields |->
             <<Field("email_address", "email_address", TRUE, FALSE,
                  StringT),
               Field("merchant_id", "merchant_id", TRUE, FALSE,
                  StringT)>>],
     PlatformFee |->
        [skip_none |-> TRUE,
         fields |->
             <<Field("amount", "amount", FALSE, FALSE,
                  OpaqueT("Money")),
               Field("payee", "payee", TRUE, FALSE,
                  StructT("Payee"))>>],
     PaymentInstruction |->
        [skip_none |-> TRUE,
         fields |->
             <<Field("platform_fees", "platform_fees", TRUE, FALSE,
                  VecT(StructT("PlatformFee"))),
               Field("disbursement_mode", "disbursement_mode", TRUE, FALSE,
                  EnumT("DisbursementMode"))>>],
     ShippingDetail |->
        [skip_none |-> TRUE,
         fields |->
             <<Field("name", "name", TRUE, FALSE,
                  StringT),
               Field("address", "address", TRUE, FALSE,
                  OpaqueT("Address"))>>],
     Item |->
        [skip_none |-> TRUE,
         fields |->
             <<Field("name", "name", FALSE, FALSE,
                  StringT),
               Field("unit_amount", "unit_amount", FALSE, FALSE,
                  OpaqueT("Money")),
               Field("tax", "tax", TRUE, FALSE,
                  OpaqueT("Money")),
               Field("quantity", "quantity", FALSE, FALSE,
                  StringT),
               Field("description", "description", TRUE, FALSE,
                  StringT),
               Field("sku", "sku", TRUE, FALSE,
                  StringT),
               Field("category", "category", TRUE, FALSE,
                  EnumT("ItemCategoryType"))>>],
     AuthorizationStatusDetails |->
        [skip_none |-> FALSE,
         fields |->
             <<Field("reason", "reason", FALSE, FALSE,
                  EnumT("AuthorizationStatusDetailsReason"))>>],
     AuthorizationWithData |->
        [skip_none |-> FALSE,
         fields |->
             <<Field("status", "status", FALSE, FALSE,
                  EnumT("AuthorizationStatus")),
               Field("status_details", "status_details", FALSE, FALSE,
                  StructT("AuthorizationStatusDetails"))>>],
     CaptureStatusDetails |->
        [skip_none |-> FALSE,
         fields |->
             <<Field("reason", "reason", FALSE, FALSE,
                  EnumT("CaptureStatusDetailsReason"))>>],
     Capture |->
        [skip_none |-> TRUE,
         fields |->
             <<Field("status", "status", FALSE, FALSE,
                  EnumT("CaptureStatus")),
               Field("status_details", "status_details", TRUE, FALSE,
                  StructT("CaptureStatusDetails"))>>],
     RefundStatusDetails |->
        [skip_none |-> FALSE,
         fields |->
             <<Field("reason", "reason", FALSE, FALSE,
                  EnumT("RefundStatusDetailsReason"))>>],
     Refund |->
        [skip_none |-> FALSE,
         fields |->
             <<Field("status", "status", FALSE, FALSE,
                  EnumT("RefundStatus")),
               Field("status_details", "status_details", FALSE, FALSE,
                  StructT("RefundStatusDetails"))>>],
     PaymentCollection |->
        [skip_none |-> FALSE,
         fields |->
             <<Field("authorizations", "authorizations", FALSE, TRUE,
                  VecT(StructT("AuthorizationWithData"))),
               Field("captures", "captures", FALSE, TRUE,
                  VecT(StructT("Capture"))),
               Field("refunds", "refunds", FALSE, TRUE,
                  VecT(StructT("Refund")))>>],
     PurchaseUnit |->
        [skip_none |-> TRUE,
         fields |->
             <<Field("reference_id", "reference_id", TRUE, FALSE,
                  StringT),
               Field("amount", "amount", FALSE, FALSE,
                  StructT("Amount")),
               Field("payee", "payee", TRUE, FALSE,
                  StructT("Payee")),
               Field("payment_instruction", "payment_instruction", TRUE, FALSE,
                  StructT("PaymentInstruction")),
               Field("description", "description", TRUE, FALSE,
                  StringT),
               Field("custom_id", "custom_id", TRUE, FALSE,
                  StringT),
               Field("invoice_id", "invoice_id", TRUE, FALSE,
                  StringT),
               Field("id", "id", TRUE, FALSE,
                  StringT),
               Field("soft_descriptor", "soft_descriptor", TRUE, FALSE,
                  StringT),
               Field("items", "items", TRUE, FALSE,
                  VecT(StructT("Item"))),
               Field("shipping", "shipping", TRUE, FALSE,
                  StructT("ShippingDetail")),
               Field("payments", "payments", TRUE, FALSE,
                  StructT("PaymentCollection"))>>],
     PaymentMethod |->
        [skip_none |-> TRUE,
         fields |->
             <<Field("payer_selected", "payer_selected", TRUE, FALSE,
                  StringT),
               Field("payee_preferred", "payee_preferred", TRUE, FALSE,
                  EnumT("PayeePreferred"))>>],
     ApplicationContext |->
        [skip_none |-> TRUE,
         fields |->
             <<Field("brand_name", "brand_name", TRUE, FALSE,
                  StringT),
               Field("locale", "locale", TRUE, FALSE,
                  StringT),
               Field("landing_page", "landing_page", TRUE, FALSE,
                  EnumT("LandingPage")),
               Field("shipping_preference", "shipping_preference", TRUE, FALSE,
                  EnumT("ShippingPreference")),
               Field("user_action", "user_action", TRUE, FALSE,
                  EnumT("UserAction")),
               Field("payment_method", "payment_method", TRUE, FALSE,
                  StructT("PaymentMethod")),
               Field("return_url", "return_url", TRUE, FALSE,
                  StringT),
               Field("cancel_url", "cancel_url", TRUE, FALSE,
                  StringT)>>],
     OrderPayload |->
        [skip_none |-> TRUE,
         fields |->
             <<Field("intent", "intent", FALSE, FALSE,
                  EnumT("Intent")),
               Field("payer", "payer", TRUE, FALSE,
                  StructT("Payer")),
               Field("purchase_units", "purchase_units", FALSE, FALSE,
                  VecT(StructT("PurchaseUnit"))),
               Field("application_context", "application_context", TRUE, FALSE,
                  StructT("ApplicationContext"))>>],
     CardResponse |->
        [skip_none |-> FALSE,
         fields |->
             <<Field("last_digits", "last_digits", FALSE, FALSE,
                  StringT),
               Field("brand", "brand", FALSE, FALSE,
                  EnumT("CardBrand")),
               Field("card_type", "type", FALSE, FALSE,
                  EnumT("CardType"))>>],
     WalletResponse |->
        [skip_none |-> FALSE,
         fields |->
             <<Field("apple_pay", "apple_pay", FALSE, FALSE,
                  StructT("CardResponse"))>>],
     PaymentSourceResponse |->
        [skip_none |-> FALSE,
         fields |->
             <<Field("card", "card", TRUE, FALSE,
                  StructT("CardResponse")),
               Field("wallet", "wallet", TRUE, FALSE,
                  StructT("WalletResponse"))>>],
     Order |->
        [skip_none |-> TRUE,
         fields |->
             <<Field("create_time", "create_time", TRUE, FALSE,
                  DateTimeT),
               Field("update_time", "update_time", TRUE, FALSE,
                  DateTimeT),
               Field("id", "id", FALSE, FALSE,
                  StringT),
               Field("payment_source", "payment_source", TRUE, FALSE,
                  StructT("PaymentSourceResponse")),
               Field("intent", "intent", TRUE, FALSE,
                  EnumT("Intent")),
               Field("payer", "payer", TRUE, FALSE,
                  StructT("Payer")),
               Field("purchase_units", "purchase_units", TRUE, FALSE,
                  VecT(StructT("PurchaseUnit"))),
               Field("status", "status", FALSE, FALSE,
                  EnumT("OrderStatus")),
               Field("links", "links", FALSE, FALSE,
                  VecT(OpaqueT("LinkDescription")))>>],
     SellerProtection |->
        [skip_none |-> FALSE,
         fields |->
             <<Field("dispute_categories", "dispute_categories", FALSE, FALSE,
                  VecT(StringT)),
               Field("status", "status", FALSE, FALSE,
                  EnumT("SellerProtectionStatus"))>>],
     RelatedIds |->
        [skip_none |-> FALSE,
         fields |->
             <<Field("order_id", "order_id", FALSE, FALSE,
                  StringT)>>],
     SupplementaryData |->
        [skip_none |-> FALSE,
         fields |->
             <<Field("related_ids", "related_ids", FALSE, FALSE,
                  StructT("RelatedIds"))>>],
     SellerReceivableBreakdown |->
        [skip_none |-> FALSE,
         fields |->
             <<Field("paypal_fee", "paypal_fee", FALSE, FALSE,
                  StructT("Amount")),
               Field("gross_amount", "gross_amount", FALSE, FALSE,
                  StructT("Amount")),
               Field("net_amount", "net_amount", FALSE, FALSE,
                  StructT("Amount"))>>],
     Payment |->
        [skip_none |-> FALSE,
         fields |->
             <<Field("amount", "amount", FALSE, FALSE,
                  StructT("Amount")),
               Field("seller_protection", "seller_protection", TRUE, FALSE,
                  StructT("SellerProtection")),
               Field("create_time", "create_time", TRUE, FALSE,
                  DateTimeT),
               Field("update_time", "update_time", TRUE, FALSE,
                  DateTimeT),
               Field("final_capture", "final_capture", TRUE, FALSE,
                  BoolT),
               Field("seller_receivable_breakdown", "seller_receivable_breakdown", TRUE, FALSE,
                  StructT("SellerReceivableBreakdown")),
               Field("custom_id", "custom_id", TRUE, FALSE,
                  StringT),
               Field("links", "links", FALSE, FALSE,
                  VecT(OpaqueT("LinkDescription"))),
               Field("id", "id", TRUE, FALSE,
                  StringT),
               Field("status", "status", TRUE, FALSE,
                  EnumT("CaptureStatus"))>>],
     Verification |->
        [skip_none |-> TRUE,
         fields |->
             <<Field("verification_status", "verification_status", FALSE, FALSE,
                  EnumT("VerificationStatus"))>>],
     WebhookVerificationPayload |->
        [skip_none |-> TRUE,
         fields |->
             <<Field("transmission_id", "transmission_id", FALSE, FALSE,
                  StringT),
               Field("transmission_time", "transmission_time", FALSE, FALSE,
                  StringT),
               Field("cert_url", "cert_url", FALSE, FALSE,
                  StringT),
               Field("auth_algo", "auth_algo", FALSE, FALSE,
                  StringT),
               Field("transmission_sig", "transmission_sig", FALSE, FALSE,
                  StringT),
               Field("webhook_id", "webhook_id", FALSE, FALSE,
                  StringT),
               Field("webhook_event", "webhook_event", FALSE, FALSE,
                  OpaqueT("T"))>>],
     Webhook |->
        [skip_none |-> TRUE,
         fields |->
             <<Field("id", "id", FALSE, FALSE,
                  StringT),
               Field("create_time", "create_time", FALSE, FALSE,
                  StringT),
               Field("event_type", "event_type", FALSE, FALSE,
                  StringT),
               Field("resource_type", "resource_type", FALSE, FALSE,
                  StringT),
               Field("resource_version", "resource_version", FALSE, FALSE,
                  StringT),
               Field("summary", "summary", FALSE, FALSE,
                  StringT),
               Field("resource", "resource", FALSE, FALSE,
                  OpaqueT("T")),
               Field("zts", "zts", TRUE, FALSE,
                  I64T),
               Field("event_version", "event_version", FALSE, FALSE,
                  StringT),
               Field("links", "links", FALSE, FALSE,
                  VecT(OpaqueT("LinkDescription")))>>]]

StructTypes == DOMAIN Structs

(* ---------------------- derive(Serialize, Deserialize) ----------------- *)

\* Op applied to the value of x, with x evaluated a single time
Once(x, Op(_)) == CHOOSE r \in {Op(v) : v \in {x}} : TRUE

\* the position of the field of the struct with this identifier
FieldNamed(F, name) == CHOOSE i \in 1..Len(F) : F[i].name = name

(* chrono::DateTime<Utc>.  A value is an instant: the days since 1970-01-01,
   the seconds of that day in UTC, and the nanoseconds, which are 10^9 or
   more within a leap second. *)
Instant(days, secs, frac) == [days |-> days, secs |-> secs, frac |-> frac]

(* A text is written as a string.  A character that a string of this
   language cannot hold is written in it as JSON writes it, \u and the four
   hexadecimal digits of its code point in lower case: the minus sign U+2212
   as \u2212, the line tabulation U+000B as \u000b.  Chars gives the
   characters (the Rust chars) of a text, one element for each. *)
RECURSIVE Chars(_)
Chars(text) ==
    IF text = "" THEN <<>>
    ELSE IF Len(text) >= 6 /\ SubSeq(text, 1, 2) = "\\u"
    THEN <<SubSeq(text, 1, 6)>> \o Chars(SubSeq(text, 7, Len(text)))
    ELSE <<SubSeq(text, 1, 1)>> \o Chars(SubSeq(text, 2, Len(text)))

\* the character at a position of the characters s, "" past their end
CharAt(s, i) == IF 1 <= i /\ i <= Len(s) THEN s[i] ELSE ""

DigitChars == <<"0", "1", "2", "3", "4", "5", "6", "7", "8", "9">>

IsDigit(c) == \E d \in 1..10 : DigitChars[d] = c

DigitValue(c) == (CHOOSE d \in 1..10 : DigitChars[d] = c) - 1

\* char::is_whitespace: the characters with the Unicode property White_Space
IsSpace(c) ==
    c \in {"\t", "\n", "\\u000b", "\f", "\r", " ", "\\u0085", "\\u00a0",
           "\\u1680", "\\u2000", "\\u2001", "\\u2002", "\\u2003", "\\u2004",
           "\\u2005", "\\u2006", "\\u2007", "\\u2008", "\\u2009", "\\u200a",
           "\\u2028", "\\u2029", "\\u202f", "\\u205f", "\\u3000"}

\* str::trim_start: the first position from i on that holds no white space
RECURSIVE TrimStart(_, _)
TrimStart(s, i) ==
    IF IsSpace(CharAt(s, i)) THEN TrimStart(s, i + 1) ELSE i

\* the number of digits from position i on, max at most
RECURSIVE DigitRun(_, _, _)
DigitRun(s, i, max) ==
    IF max > 0 /\ IsDigit(CharAt(s, i))
    THEN 1 + DigitRun(s, i + 1, max - 1)
    ELSE 0

\* the number the n digits from position i on write; a number of more than
\* nine digits is out of the range of every field and is held as 10^9
RECURSIVE NumberAt(_, _, _)
NumberAt(s, i, n) ==
    IF n = 0 THEN 0
    ELSE LET hi == NumberAt(s, i, n - 1)
         IN  IF hi >= 100000000 THEN 1000000000
             ELSE hi * 10 + DigitValue(CharAt(s, i + n - 1))

\* what a scanning step gives: whether it matched, the position after what
\* it took, and the number it read
Scan(pos, value) == [ok |-> TRUE, pos |-> pos, value |-> value]

ScanErr == [ok |-> FALSE, pos |-> 0, value |-> 0]

\* Item::Numeric: white space is skipped, then one to width digits are read;
\* a year may carry a sign, and then takes every digit that follows
Numeric(s, i, width, signed) ==
    LET p == TrimStart(s, i)
        sign == IF signed /\ CharAt(s, p) \in {"+", "-"} THEN CharAt(s, p) ELSE ""
        q == IF sign = "" THEN p ELSE p + 1
        n == DigitRun(s, q, IF sign = "" THEN width ELSE Len(s))
    IN  IF n = 0 THEN ScanErr
        ELSE Scan(q + n, IF sign = "-" THEN 0 - NumberAt(s, q, n)
                         ELSE NumberAt(s, q, n))

\* Item::Space("") and Item::Literal(c): white space is skipped, then the
\* character must follow
Literal(s, i, c) ==
    LET p == TrimStart(s, i)
    IN  IF CharAt(s, p) = c THEN Scan(p + 1, 0) ELSE ScanErr

Pow10(n) == CASE n = 0 -> 1 [] n = 1 -> 10 [] n = 2 -> 100 [] n = 3 -> 1000
              [] n = 4 -> 10000 [] n = 5 -> 100000 [] n = 6 -> 1000000
              [] n = 7 -> 10000000 [] n = 8 -> 100000000

\* Fixed::Nanosecond: a fraction is optional; of its digits the first nine
\* count and the others are skipped
Nanosecond(s, i) ==
    IF CharAt(s, i) # "." THEN Scan(i, 0)
    ELSE LET n == DigitRun(s, i + 1, 9)
         IN  IF n = 0 THEN ScanErr
             ELSE Scan(i + 1 + DigitRun(s, i + 1, Len(s)),
                       NumberAt(s, i + 1, n) * Pow10(9 - n))

\* scan::colon_or_space: colons and white space are skipped
RECURSIVE ColonOrSpace(_, _)
ColonOrSpace(s, i) ==
    IF CharAt(s, i) = ":" \/ IsSpace(CharAt(s, i))
    THEN ColonOrSpace(s, i + 1)
    ELSE i

\* the offset in seconds east of UTC: UTC in any case, Z or z, or a sign
\* (+, - or the minus sign U+2212), two digits of hours and two digits of
\* minutes below 60
TimezoneOffset(s, i) ==
    IF /\ CharAt(s, i) \in {"U", "u"}
       /\ CharAt(s, i + 1) \in {"T", "t"}
       /\ CharAt(s, i + 2) \in {"C", "c"}
    THEN Scan(i + 3, 0)
    ELSE IF CharAt(s, i) \in {"Z", "z"} THEN Scan(i + 1, 0)
    ELSE IF CharAt(s, i) \notin {"+", "-", "\\u2212"} THEN ScanErr
    ELSE IF ~(IsDigit(CharAt(s, i + 1)) /\ IsDigit(CharAt(s, i + 2))) THEN ScanErr
    ELSE LET p == ColonOrSpace(s, i + 3)
         IN  IF ~(IsDigit(CharAt(s, p)) /\ IsDigit(CharAt(s, p + 1))) THEN ScanErr
             ELSE IF DigitValue(CharAt(s, p)) > 5 THEN ScanErr
             ELSE LET seconds == NumberAt(s, i + 1, 2) * 3600 + NumberAt(s, p, 2) * 60
                  IN  Scan(p + 2, IF CharAt(s, i) = "+" THEN seconds ELSE 0 - seconds)

\* the days of a month; February has 29 in a leap year
DaysInMonth(y, m) ==
    CASE m \in {1, 3, 5, 7, 8, 10, 12} -> 31
      [] m \in {4, 6, 9, 11} -> 30
      [] m = 2 -> IF y % 4 = 0 /\ (y % 100 # 0 \/ y % 400 = 0) THEN 29 ELSE 28

\* the days from 1970-01-01 to a date of the proleptic Gregorian calendar
DaysFromCivil(y, m, d) ==
    LET yy == IF m <= 2 THEN y - 1 ELSE y
        era == yy \div 400
        yoe == yy - era * 400
        doy == (153 * (IF m > 2 THEN m - 3 ELSE m + 9) + 2) \div 5 + d - 1
        doe == yoe * 365 + yoe \div 4 - yoe \div 100 + doy
    IN  era * 146097 + doe - 719468

\* the date that many days after 1970-01-01
CivilFromDays(days) ==
    LET z == days + 719468
        era == z \div 146097
        doe == z - era * 146097
        yoe == (doe - doe \div 1460 + doe \div 36524 - doe \div 146096) \div 365
        doy == doe - (365 * yoe + yoe \div 4 - yoe \div 100)
        mp == (5 * doy + 2) \div 153
        m == IF mp < 10 THEN mp + 3 ELSE mp - 9
    IN  [year |-> yoe + era * 400 + (IF m <= 2 THEN 1 ELSE 0),
         month |-> m,
         day |-> doy - (153 * mp + 2) \div 5 + 1]

\* the years a NaiveDate holds
YearInRange(y) == -262143 <= y /\ y <= 262142

\* Parsed::to_datetime: the fields read must be a date, a time of day (a
\* second of 60 is a leap second) and an offset of less than a day; the
\* instant is the local time less the offset
ToDateTime(y, m, d, hh, mi, ss, nano, offset) ==
    IF ~(/\ YearInRange(y)
         /\ 1 <= m /\ m <= 12
         /\ 1 <= d /\ d <= DaysInMonth(y, m)
         /\ hh <= 23 /\ mi <= 59 /\ ss <= 60
         /\ -86400 < offset /\ offset < 86400)
    THEN DecodeErr
    ELSE LET local == hh * 3600 + mi * 60 + (IF ss = 60 THEN 59 ELSE ss) - offset
             days == DaysFromCivil(y, m, d) + local \div 86400
         IN  IF ~YearInRange(CivilFromDays(days).year) THEN DecodeErr
             ELSE DecodeOk(Instant(days, local % 86400,
                                   nano + (IF ss = 60 THEN 1000000000 ELSE 0)))

\* one item of a format: what to read, the field it sets, and for a number
\* its width and whether it may carry a sign, for a literal its character
Item(kind, field, width, signed, c) ==
    [kind |-> kind, field |-> field, width |-> width, signed |-> signed, c |-> c]

\* the items of a timestamp in RFC 3339 as parse_rfc3339_relaxed reads them:
\* the date, one of T, t and a space, the time with its optional fraction,
\* and the offset
Rfc3339Items ==
    <<Item("numeric", "year", 4, TRUE, ""), Item("literal", "", 0, FALSE, "-"),
      Item("numeric", "month", 2, FALSE, ""), Item("literal", "", 0, FALSE, "-"),
      Item("numeric", "day", 2, FALSE, ""),
      Item("separator", "", 0, FALSE, ""),
      Item("numeric", "hour", 2, FALSE, ""), Item("literal", "", 0, FALSE, ":"),
      Item("numeric", "minute", 2, FALSE, ""), Item("literal", "", 0, FALSE, ":"),
      Item("numeric", "second", 2, FALSE, ""),
      Item("nanosecond", "nanosecond", 0, FALSE, ""),
      Item("offset", "offset", 0, FALSE, "")>>

\* nothing read yet
NoFields ==
    [f \in {"year", "month", "day", "hour", "minute", "second", "nanosecond",
            "offset"} |-> 0]

\* one item read from position i
ScanItem(s, i, item) ==
    CASE item.kind = "numeric" -> Numeric(s, i, item.width, item.signed)
      [] item.kind = "literal" -> Literal(s, i, item.c)
      [] item.kind = "separator" ->
             IF CharAt(s, i) \in {"T", "t", " "} THEN Scan(i + 1, 0) ELSE ScanErr
      [] item.kind = "nanosecond" -> Nanosecond(s, i)
      [] item.kind = "offset" -> TimezoneOffset(s, TrimStart(s, i))

\* format::parse: the items are read one after the other from position i,
\* each setting its field; the first that does not match ends the parsing
\* with an error
RECURSIVE ParseInternal(_, _, _, _)
ParseInternal(s, i, items, parsed) ==
    IF items = <<>> THEN [ok |-> TRUE, pos |-> i, parsed |-> parsed]
    ELSE LET r == ScanItem(s, i, Head(items))
         IN  IF ~r.ok THEN [ok |-> FALSE, pos |-> i, parsed |-> parsed]
             ELSE ParseInternal(s, r.pos, Tail(items),
                      IF Head(items).field = "" THEN parsed
                      ELSE [parsed EXCEPT ![Head(items).field] = r.value])

\* Deserialize of DateTime<Utc>: str::parse::<DateTime<FixedOffset>>, which
\* reads RFC 3339 leniently (white space before a field, T, t or a space
\* between date and time, an optional fraction, the offset with or without
\* its colon), then with_timezone(&Utc).  Text that is no timestamp, a date
\* or time that does not exist, text after the offset: an error.
ParseDateTime(text) ==
    LET s == Chars(text)
        r == ParseInternal(s, 1, Rfc3339Items, NoFields)
    IN  IF ~r.ok THEN DecodeErr
        ELSE IF TrimStart(s, r.pos) <= Len(s) THEN DecodeErr
        ELSE ToDateTime(r.parsed.year, r.parsed.month, r.parsed.day,
                        r.parsed.hour, r.parsed.minute, r.parsed.second,
                        r.parsed.nanosecond, r.parsed.offset)

\* the number in at least width digits
RECURSIVE Pad(_, _)
Pad(n, width) ==
    IF n < 10 /\ width <= 1 THEN DigitChars[n + 1]
    ELSE Pad(n \div 10, width - 1) \o DigitChars[(n % 10) + 1]

\* Serialize of DateTime<Utc>: RFC 3339 in UTC with the offset written Z,
\* the fraction left out when it is zero and else written in 3, 6 or 9
\* digits; a year outside 0..9999 carries its sign
FormatDateTime(instant) ==
    LET date == CivilFromDays(instant.days)
        leap == instant.frac >= 1000000000
        nano == IF leap THEN instant.frac - 1000000000 ELSE instant.frac
        year == IF 0 <= date.year /\ date.year <= 9999 THEN Pad(date.year, 4)
                ELSE IF date.year < 0 THEN "-" \o Pad(0 - date.year, 4)
                ELSE "+" \o Pad(date.year, 4)
        fraction == IF nano = 0 THEN ""
                    ELSE IF nano % 1000000 = 0 THEN "." \o Pad(nano \div 1000000, 3)
                    ELSE IF nano % 1000 = 0 THEN "." \o Pad(nano \div 1000, 6)
                    ELSE "." \o Pad(nano, 9)
    IN  year \o "-" \o Pad(date.month, 2) \o "-" \o Pad(date.day, 2) \o "T"
            \o Pad(instant.secs \div 3600, 2) \o ":"
            \o Pad((instant.secs % 3600) \div 60, 2) \o ":"
            \o Pad((instant.secs % 60) + (IF leap THEN 1 ELSE 0), 2)
            \o fraction \o "Z"

\* Serialize.  A value of a struct is a function from the identifiers of its
\* fields to their values, an Option is None or Some(v), a Vec a sequence, an
\* enum value the identifier of its variant.
RECURSIVE ToJson(_, _)

\* Serialize of the struct with the declaration S.  An Option field that is
\* None is left out when the struct carries #[skip_serializing_none] and is
\* written as null when it does not.
StructToJson(S, x) ==
    LET written == {i \in 1..Len(S.fields) :
                       ~(S.skip_none /\ S.fields[i].optional
                             /\ ~x[S.fields[i].name].some)}
    IN  JObj([jn \in {S.fields[i].json : i \in written} |->
                LET f == S.fields[CHOOSE i \in written : S.fields[i].json = jn]
                IN  IF f.optional
                    THEN IF x[f.name].some
                         THEN ToJson(f.type, x[f.name].value)
                         ELSE JNull
                    ELSE ToJson(f.type, x[f.name])])

ToJson(t, x) ==
    CASE t.k = "string" -> JStr(x)
      [] t.k = "datetime" -> JStr(FormatDateTime(x))
      [] t.k = "bool" -> JBool(x)
      [] t.k = "i64" -> JNum(x)
      [] t.k = "opaque" -> x
      [] t.k = "enum" -> JStr(SerializeEnum(t.name, x))
      [] t.k = "vec" -> JArr([i \in 1..Len(x) |-> ToJson(t.elem, x[i])])
      [] t.k = "struct" -> StructToJson(Structs[t.name], x)

\* Default::default() of the type of a field carrying #[serde(default)]
DefaultOf(t) == <<>>

\* Deserialize.  Every member that is present must have the type of its
\* field.
RECURSIVE FromJson(_, _)

\* Deserialize of an enum of unit variants with this table of tokens: from
\* the string of a token, or from an object with one member, written once,
\* whose name is the token and whose value is null
EnumFromJson(table, j) ==
    IF j.j = "string"
    THEN DeserializeEnum(table, j.s)
    ELSE IF j.j = "object" /\ Cardinality(DOMAIN j.fields) = 1 /\ j.twice = {}
    THEN Once(CHOOSE n \in DOMAIN j.fields : TRUE,
              LAMBDA token :
                  IF j.fields[token].j = "null"
                  THEN DeserializeEnum(table, token)
                  ELSE DecodeErr)
    ELSE DecodeErr

\* Deserialize of Vec<elem>
VecFromJson(elem, j) ==
    IF j.j # "array" THEN DecodeErr
    ELSE Once(<<>> \o [i \in 1..Len(j.items) |-> FromJson(elem, j.items[i])],
              LAMBDA items :
                  IF \A i \in 1..Len(items) : items[i].ok
                  THEN DecodeOk([i \in 1..Len(items) |-> items[i].value])
                  ELSE DecodeErr)

\* the field f of a struct, read from the member or element m
FieldFromJson(f, m) ==
    IF ~f.optional THEN FromJson(f.type, m)
    ELSE IF m.j = "null" THEN DecodeOk(None)
    ELSE Once(FromJson(f.type, m),
              LAMBDA d : IF d.ok THEN DecodeOk(Some(d.value)) ELSE DecodeErr)

\* Deserialize of the struct with the fields F, from an object or from an
\* array.  From an object (visit_map): a member the struct does not declare
\* is ignored, however often it is written; a declared member written a
\* second time makes the decoding fail (duplicate_field); an Option field
\* that is missing is None, any other field that is missing makes the
\* decoding fail unless it carries #[serde(default)].  From an array (visit_seq): the elements are the
\* fields in the order of their declaration; a field past the end fails
\* unless it carries #[serde(default)], and an element past the last field
\* fails.
StructFromJson(F, j) ==
    IF j.j \notin {"object", "array"} THEN DecodeErr
    ELSE IF j.j = "array" /\ Len(j.items) > Len(F) THEN DecodeErr
    ELSE IF j.j = "object" /\ \E i \in 1..Len(F) : F[i].json \in j.twice
    THEN DecodeErr
    ELSE Once(<<>> \o [i \in 1..Len(F) |->
                 IF j.j = "object" /\ F[i].json \in DOMAIN j.fields
                 THEN FieldFromJson(F[i], j.fields[F[i].json])
                 ELSE IF j.j = "array" /\ i <= Len(j.items)
                 THEN FieldFromJson(F[i], j.items[i])
                 ELSE IF F[i].default THEN DecodeOk(DefaultOf(F[i].type))
                 ELSE IF F[i].optional /\ j.j = "object" THEN DecodeOk(None)
                 ELSE DecodeErr],
              LAMBDA fs :
                  IF \A i \in 1..Len(F) : fs[i].ok
                  THEN DecodeOk([n \in {F[i].name : i \in 1..Len(F)} |->
                                    fs[FieldNamed(F, n)].value])
                  ELSE DecodeErr)

FromJson(t, j) ==
    CASE t.k = "string" -> IF j.j = "string" THEN DecodeOk(j.s) ELSE DecodeErr
      [] t.k = "datetime" -> IF j.j = "string" THEN ParseDateTime(j.s) ELSE DecodeErr
      [] t.k = "bool" -> IF j.j = "bool" THEN DecodeOk(j.b) ELSE DecodeErr
      [] t.k = "i64" -> IF j.j = "number" THEN DecodeOk(j.n) ELSE DecodeErr
      [] t.k = "opaque" ->
             IF j.j \notin {"null", "invalid"} THEN DecodeOk(j) ELSE DecodeErr
      [] t.k = "enum" -> EnumFromJson(EnumTokenTable(t.name), j)
      [] t.k = "vec" -> VecFromJson(t.elem, j)
      [] t.k = "struct" -> StructFromJson(Structs[t.name].fields, j)

\* serde_json::from_str::<T>(text), and res.json::<T>(): text that is not
\* JSON is rejected, and a JSON document is decoded as the type while it is
\* read, so that a member written twice reaches the decoder twice
from_str(t, text) ==
    IF text.j = "invalid" THEN DecodeErr ELSE FromJson(t, text)

(* ------------------------------ sample values -------------------------- *)

\* A value of the type: with every Option Some and every Vec of one element
\* (full), or with every Option None and every Vec empty.
RECURSIVE Sample(_, _)

\* such a value of the struct with the fields F
StructSample(F, full) ==
    [n \in {F[i].name : i \in 1..Len(F)} |->
        LET f == F[FieldNamed(F, n)]
        IN  IF f.optional
            THEN IF full THEN Some(Sample(f.type, full)) ELSE None
            ELSE Sample(f.type, full)]

Sample(t, full) ==
    CASE t.k = "string" -> "s"
      [] t.k = "datetime" -> Instant(18808, 43200, 0)
      [] t.k = "bool" -> TRUE
      [] t.k = "i64" -> 7
      [] t.k = "opaque" -> JStr(t.name)
      [] t.k = "enum" -> CHOOSE v \in Enums[t.name].variants : TRUE
      [] t.k = "vec" -> IF full THEN <<Sample(t.elem, full)>> ELSE <<>>
      [] t.k = "struct" -> StructSample(Structs[t.name].fields, full)

\* the value of the struct with the fields F in which every Option field is
\* Some, and in it every nested Option None and every Vec empty
ShallowOf(F) ==
    [n \in {F[i].name : i \in 1..Len(F)} |->
        LET f == F[FieldNamed(F, n)]
        IN  IF f.optional THEN Some(Sample(f.type, FALSE))
            ELSE Sample(f.type, FALSE)]

\* the values of the struct with the fields F that are encoded: with every
\* Option field Some, with none, and for every Option field the value in
\* which it alone is Some
ValuesOf(F) ==
    {ShallowOf(F)} \cup
        UNION {{empty} \cup
                   {[empty EXCEPT ![F[i].name] = Some(Sample(F[i].type, FALSE))] :
                       i \in {k \in 1..Len(F) : F[k].optional}} :
               empty \in {StructSample(F, FALSE)}}

Values(name) == ValuesOf(Structs[name].fields)

\* the JSON value without its null members, at every depth
RECURSIVE Compact(_)
Compact(j) ==
    Once(j, LAMBDA v :
        CASE v.j = "object" ->
                 JObj([n \in {m \in DOMAIN v.fields : v.fields[m].j # "null"} |->
                          Compact(v.fields[n])])
          [] v.j = "array" ->
                 JArr([i \in 1..Len(v.items) |-> Compact(v.items[i])])
          [] OTHER -> v)

\* the object without the member of this name
Without(j, name) ==
    JObj([n \in DOMAIN j.fields \ {name} |-> j.fields[n]])

\* the JSON objects handed to the decoding of a struct: the encoded values
\* with their absent optionals left out, and each of these with one declared
\* member removed
JsonInputsOf(S) ==
    UNION {{b} \cup {Without(b, S.fields[i].json) : i \in 1..Len(S.fields)} :
           b \in {Compact(StructToJson(S, x)) : x \in ValuesOf(S.fields)}}

JsonInputs(name) == JsonInputsOf(Structs[name])

(* ------------------------------- decoding ------------------------------ *)

\* the field is present in the object
Has(f, name) == name \in DOMAIN f

\* Deserialize of Order (res.json::<Order>()): id, status and links are
\* required, every other declared member is optional, and every member that
\* is present must decode as the type of its field.  Members the struct does
\* not declare are ignored.
DecodeOrder(body) == from_str(StructT("Order"), body)

\* a variant of DecodeVerification that takes every unknown token for a
\* failure instead of rejecting it
DecodeVerification_lenient(body) ==
    IF body.j # "object" THEN DecodeErr
    ELSE LET f == body.fields IN
         IF ~Has(f, "verification_status") THEN DecodeErr
         ELSE IF f.verification_status.j # "string" THEN DecodeErr
         ELSE IF ~DeserializeEnum(VerificationStatusToken, f.verification_status.s).ok
              THEN DecodeOk([verification_status |-> "Failure"])
         ELSE DecodeOk([verification_status |->
                  DeserializeEnum(VerificationStatusToken,
                                  f.verification_status.s).value])

\* Deserialize of Verification (res.json::<Verification>()):
\* verification_status is required and must be a VerificationStatus token.
DecodeVerification(body) == from_str(StructT("Verification"), body)

\* Deserialize of errors::PaypalError (res.json::<PaypalError>()): the
\* provider's error schema, with its name, message and debug id.
DecodePaypalError(body) ==
    IF body.j # "object" THEN DecodeErr
    ELSE LET f == body.fields IN
         IF ~(Has(f, "name") /\ Has(f, "message") /\ Has(f, "debug_id")) THEN DecodeErr
         ELSE IF body.twice \cap {"name", "message", "debug_id"} # {} THEN DecodeErr
         ELSE IF \E n \in {"name", "message", "debug_id"} : f[n].j # "string"
         THEN DecodeErr
         ELSE DecodeOk([name |-> f.name.s, message |-> f.message.s,
                        debug_id |-> f.debug_id.s])

(* ------------------------------- results ------------------------------- *)

Ok(v) == [kind |-> "Ok", value |-> v]

\* Err(ResponseError::ApiError(e))
ApiError(e) == [kind |-> "ApiError", error |-> e]

\* the `?` on a reqwest::Error: Err(ResponseError::from(e)), the error kind
\* that is not an API error.  cause tells where the transport's error arose.
HttpError(cause) == [kind |-> "HttpError", cause |-> cause]

\* a variant of ErrorBranch that hides an undecodable error body behind an
\* API error with empty fields
ErrorBranch_defaulted(res) ==
    LET e == DecodePaypalError(res.body) IN
    IF e.ok THEN ApiError(e.value)
    ELSE ApiError([name |-> "", message |-> "", debug_id |-> ""])

\* the else branch shared by every operation:
\* Err(ResponseError::ApiError(res.json::<PaypalError>().await?))
ErrorBranch(res) ==
    LET e == DecodePaypalError(res.body) IN
    IF e.ok THEN ApiError(e.value) ELSE HttpError("decode")

\* a variant of create_order_result that takes only 200 for success
create_order_result_only_200(res) ==
    IF res.status = 200
    THEN LET order == DecodeOrder(res.body) IN
         IF order.ok THEN Ok(order.value) ELSE HttpError("decode")
    ELSE ErrorBranch(res)

\* create_order after `send().await?` succeeded
create_order_result(res) ==
    IF is_success(res.status)
    THEN LET order == DecodeOrder(res.body) IN
         IF order.ok THEN Ok(order.value) ELSE HttpError("decode")
    ELSE ErrorBranch(res)

\* a variant of build_endpoint_order_result that reports a 2xx body that is
\* not an Order as an API error
build_endpoint_order_result_api(res) ==
    IF is_success(res.status)
    THEN LET order == DecodeOrder(res.body) IN
         IF order.ok THEN Ok(order.value)
         ELSE ApiError([name |-> "", message |-> "", debug_id |-> ""])
    ELSE ErrorBranch(res)

\* build_endpoint_order after `send().await?` succeeded
build_endpoint_order_result(res) ==
    IF is_success(res.status)
    THEN LET order == DecodeOrder(res.body) IN
         IF order.ok THEN Ok(order.value) ELSE HttpError("decode")
    ELSE ErrorBranch(res)

\* a variant of update_order_result that decodes the updated order from the
\* response before returning Ok(())
update_order_result_decoding(res) ==
    IF is_success(res.status)
    THEN IF DecodeOrder(res.body).ok THEN Ok("unit") ELSE HttpError("decode")
    ELSE ErrorBranch(res)

\* update_order after `send().await?` succeeded: Ok(()) without reading the
\* body
update_order_result(res) ==
    IF is_success(res.status)
    THEN Ok("unit")
    ELSE ErrorBranch(res)

\* a variant of verify_signature_result that reports success for every 2xx
\* response without reading the provider's verdict
verify_signature_result_local(res) ==
    IF is_success(res.status)
    THEN Ok([verification_status |-> "Success"])
    ELSE ErrorBranch(res)

\* verify_signature after `send().await?` succeeded
verify_signature_result(res) ==
    IF is_success(res.status)
    THEN LET verification == DecodeVerification(res.body) IN
         IF verification.ok THEN Ok(verification.value) ELSE HttpError("decode")
    ELSE ErrorBranch(res)


(* -------------------------------- state -------------------------------- *)

VARIABLES
    live,       \* the client was built for the production environment
    pc,         \* "idle", "preparing" (suspended in setup_headers, nothing
                \* sent yet), "awaiting" (a request is with the transport),
                \* "reading" (the status arrived, the body is being read),
                \* "returned", "panicked"
    op,         \* the operation in progress
    args,       \* its arguments
    request,    \* the request the call in progress builds
    sent,       \* the requests the call in progress handed to the transport
    response,   \* what the transport answered
    result,     \* what the operation returned
    calls,      \* the calls started so far
    codec       \* the last encoding or decoding done, with its input and output

vars == <<live, pc, op, args, request, sent, response, result, calls, codec>>

\* the variables of the client and its call in progress
clientVars == <<live, pc, op, args, request, sent, response, result, calls>>

\* nothing was encoded or decoded yet
NoCodec == [op |-> "none"]

NoArgs == [none |-> TRUE]

\* no request is being built
NoRequest == [none |-> TRUE]

NoResponse == [kind |-> "none"]

NoResult == [kind |-> "none"]

\* a request as built by the reqwest RequestBuilder: the method and URL of
\* client.post / get / patch, the header parameters given to setup_headers,
\* and the body of .json(..) or .body(..)
Request(method, url, header_params, body) ==
    [method |-> method, url |-> url, header_params |-> header_params,
     body |-> body]

\* .json(&value)
JsonBody(v) == [kind |-> "json", value |-> v]

\* .body(text)
TextBody(tokens) == [kind |-> "text", text |-> tokens]

\* no body set on the builder
NoBody == [kind |-> "none"]

\* a variant of send that hands the request to the transport a second time
send_retrying(requests, req) == Append(Append(requests, req), req)

\* builder.send(): the request is handed to the transport, once
send(requests, req) == Append(requests, req)

Init ==
    /\ live \in BOOLEAN
    /\ pc = "idle"
    /\ op = "none"
    /\ args = NoArgs
    /\ request = NoRequest
    /\ sent = <<>>
    /\ response = NoResponse
    /\ result = NoResult
    /\ calls = 0
    /\ codec = NoCodec

\* a call can start: no other call holds the client
CanStart == pc = "idle" /\ calls < MaxCalls

\* what every operation does up to its `self.setup_headers(..).await`: the
\* method, the URL and the header parameters are given to setup_headers, the
\* body the operation will attach is fixed by its arguments, and the call
\* suspends with nothing handed to the transport
Start(name, a, req) ==
    /\ pc' = "preparing"
    /\ op' = name
    /\ args' = a
    /\ request' = req
    /\ calls' = calls + 1
    /\ UNCHANGED <<live, sent, response, result, codec>>

\* a variant of create_order that refuses an empty purchase-unit list
\* before building the request
create_order_validating ==
    /\ CanStart
    /\ \E order \in OrderPayloads, header_params \in HeaderParams :
        IF Len(order.purchase_units) = 0
        THEN /\ pc' = "returned"
             /\ op' = "create_order"
             /\ args' = [order |-> order, header_params |-> header_params]
             /\ result' = HttpError("local")
             /\ calls' = calls + 1
             /\ UNCHANGED <<live, request, sent, response, codec>>
        ELSE Start("create_order",
                   [order |-> order, header_params |-> header_params],
                   Request("POST", endpoint(live) \o "/v2/checkout/orders",
                           header_params, JsonBody(ToJsonOrderPayload(order))))

create_order ==
    /\ CanStart
    /\ \E order \in OrderPayloads, header_params \in HeaderParams :
        Start("create_order",
              [order |-> order, header_params |-> header_params],
              Request("POST", endpoint(live) \o "/v2/checkout/orders",
                      header_params, JsonBody(ToJsonOrderPayload(order))))

\* a variant of build_endpoint_order that formats the URL without the
\* sub-resource
build_endpoint_order_no_sub(order_id, sub, post, header_params) ==
    Request(IF post THEN "POST" ELSE "GET",
            endpoint(live) \o "/v2/checkout/orders/" \o order_id,
            header_params, NoBody)

\* the request of build_endpoint_order(order_id, endpoint, post, header_params)
build_endpoint_order(order_id, sub, post, header_params) ==
    Request(IF post THEN "POST" ELSE "GET",
            endpoint(live) \o "/v2/checkout/orders/" \o order_id \o "/" \o sub,
            header_params, NoBody)

show_order_details ==
    /\ CanStart
    /\ \E order_id \in OrderIds :
        Start("show_order_details", [order_id |-> order_id],
              build_endpoint_order(order_id, "", FALSE, HeaderParamsDefault))

capture_order ==
    /\ CanStart
    /\ \E order_id \in OrderIds, header_params \in HeaderParams :
        Start("capture_order",
              [order_id |-> order_id, header_params |-> header_params],
              build_endpoint_order(order_id, "capture", TRUE, header_params))

authorize_order ==
    /\ CanStart
    /\ \E order_id \in OrderIds, header_params \in HeaderParams :
        Start("authorize_order",
              [order_id |-> order_id, header_params |-> header_params],
              build_endpoint_order(order_id, "authorize", TRUE, header_params))

\* a variant of update_order_header_params that leaves the content type out
update_order_header_params_default == HeaderParamsDefault

\* the header parameters update_order builds its request with:
\* HeaderParams { content_type: Some("application/json"), ..Default::default() }
update_order_header_params ==
    [HeaderParamsDefault EXCEPT !.content_type = Some("application/json")]

\* the call unwinds before anything is sent and returns nothing
Panic(name, a) ==
    /\ pc' = "panicked"
    /\ op' = name
    /\ args' = a
    /\ calls' = calls + 1
    /\ UNCHANGED <<live, request, sent, response, result, codec>>

\* overflow_checks: the build has overflow checks on (debug) or off (release)
update_order ==
    /\ CanStart
    /\ \E id \in OrderIds, intent \in {None} \cup {Some(x) : x \in Intent},
       purchase_units \in {None} \cup {Some(l) : l \in PurchaseUnitLists},
       overflow_checks \in BOOLEAN :
        IF update_order_panics(purchase_units, overflow_checks)
        THEN Panic("update_order",
                   [id |-> id, intent |-> intent,
                    purchase_units |-> purchase_units])
        ELSE Start("update_order",
                   [id |-> id, intent |-> intent,
                    purchase_units |-> purchase_units],
                   Request("PATCH", endpoint(live) \o "/v2/checkout/orders/" \o id,
                           update_order_header_params,
                           TextBody(PatchBody(intent, purchase_units))))

\* the header parameters verify_signature builds its request with; the
\* `_header_params` argument is not used
verify_signature_header_params(_header_params) ==
    [HeaderParamsDefault EXCEPT !.content_type = Some("application/json")]

verify_signature ==
    /\ CanStart
    /\ \E signature \in WebhookVerificationPayloads, header_params \in HeaderParams :
        Start("verify_signature",
              [signature |-> signature, header_params |-> header_params],
              Request("POST",
                      endpoint(live) \o "/v1/notifications/verify-webhook-signature",
                      verify_signature_header_params(header_params),
                      JsonBody(ToJsonWebhookVerificationPayload(signature))))

\* the rest of the operation in progress, applied to the response
ResultOf(name, res) ==
    CASE name = "create_order" -> create_order_result(res)
      [] name \in {"show_order_details", "capture_order", "authorize_order"} ->
             build_endpoint_order_result(res)
      [] name = "update_order" -> update_order_result(res)
      [] name = "verify_signature" -> verify_signature_result(res)

\* setup_headers(..).await returns the builder: the operation attaches its
\* body, hands the request to the transport and suspends at send().await
SetupHeadersReturns ==
    /\ pc = "preparing"
    /\ pc' = "awaiting"
    /\ sent' = send(sent, request)
    /\ UNCHANGED <<live, op, args, request, response, result, calls, codec>>

\* `send().await?` fails (connection, timeout): the operation returns the
\* transport's error
SendFails ==
    /\ pc = "awaiting"
    /\ pc' = "returned"
    /\ response' = [kind |-> "error"]
    /\ result' = HttpError("send")
    /\ UNCHANGED <<live, op, args, request, sent, calls, codec>>

\* `send().await?` yields a response and its status is read.  update_order
\* returns Ok(()) on a 2xx status at once, whatever body follows; on every
\* other path the call suspends again at res.json().await, with the body not
\* yet read and no result.
Respond ==
    \E status \in Statuses, body \in Bodies :
        /\ pc = "awaiting"
        /\ IF op = "update_order" /\ is_success(status)
           THEN /\ pc' = "returned"
                /\ response' = [kind |-> "response", status |-> status,
                                body |-> body]
                /\ result' = ResultOf(op, [status |-> status, body |-> body])
           ELSE /\ pc' = "reading"
                /\ response' = [kind |-> "head", status |-> status]
                /\ result' = result
        /\ UNCHANGED <<live, op, args, request, sent, calls, codec>>

\* res.json().await completes with the whole body: it is decoded and the
\* operation returns
ReadBody ==
    \E body \in Bodies :
        /\ pc = "reading"
        /\ pc' = "returned"
        /\ response' = [kind |-> "response", status |-> response.status,
                        body |-> body]
        /\ result' = ResultOf(op, [status |-> response.status, body |-> body])
        /\ UNCHANGED <<live, op, args, request, sent, calls, codec>>

\* res.json().await? fails before the body is complete (the connection
\* breaks): the operation returns the transport's error
ReadFails ==
    /\ pc = "reading"
    /\ pc' = "returned"
    /\ response' = [kind |-> "broken", status |-> response.status]
    /\ result' = HttpError("body")
    /\ UNCHANGED <<live, op, args, request, sent, calls, codec>>

\* the caller drops the future of a suspended call: the call ends without a
\* result and the exclusive borrow of the client ends
Cancel ==
    /\ pc \in {"preparing", "awaiting", "reading"}
    /\ pc' = "idle"
    /\ op' = "none"
    /\ args' = NoArgs
    /\ request' = NoRequest
    /\ sent' = <<>>
    /\ response' = NoResponse
    /\ result' = NoResult
    /\ UNCHANGED <<live, calls, codec>>

\* the caller has the result; the exclusive borrow of the client ends
Return ==
    /\ pc = "returned"
    /\ pc' = "idle"
    /\ op' = "none"
    /\ args' = NoArgs
    /\ request' = NoRequest
    /\ sent' = <<>>
    /\ response' = NoResponse
    /\ result' = NoResult
    /\ UNCHANGED <<live, calls, codec>>

Next ==
    \/ create_order
    \/ show_order_details
    \/ capture_order
    \/ authorize_order
    \/ update_order
    \/ verify_signature
    \/ SetupHeadersReturns
    \/ SendFails
    \/ Respond
    \/ ReadBody
    \/ ReadFails
    \/ Cancel
    \/ Return

Spec == Init /\ [][Next]_vars


(* ------------------------- encoding and decoding ----------------------- *)

\* the strings handed to the decoding of an enum: the identifiers of the
\* variants, the names they are written as, their upper-snake-case tokens,
\* and strings that are none of these
EnumInputs ==
    {Join(Spelling[v]) : v \in DOMAIN Spelling}
        \cup {SerializeEnum(e, v) : e \in EnumTypes, v \in DOMAIN Spelling}
        \cup {"BR_CPF", "BR_CNPJ", "JCB", "capture", "created", ""}

\* serde_json::to_string of a variant of an enum
EncodeEnum ==
    /\ codec = NoCodec
    /\ \E e \in EnumTypes, v \in DOMAIN Spelling :
        /\ v \in Enums[e].variants
        /\ codec' = [op |-> "encode_enum", type |-> e, variant |-> v,
                     token |-> SerializeEnum(e, v)]
    /\ UNCHANGED clientVars

\* serde_json::from_str of a JSON string into an enum
DecodeEnum ==
    /\ codec = NoCodec
    /\ \E e \in EnumTypes, s \in EnumInputs :
        codec' = [op |-> "decode_enum", type |-> e, input |-> s,
                  out |-> DeserializeEnum(EnumTokenTable(e), s)]
    /\ UNCHANGED clientVars

\* serde_json::to_string of a value of a struct
EncodeRecord ==
    /\ codec = NoCodec
    /\ \E name \in StructTypes :
        \E x \in Values(name) :
            codec' = [op |-> "encode_record", type |-> name, value |-> x,
                      json |-> ToJson(StructT(name), x)]
    /\ UNCHANGED clientVars

\* serde_json::from_str of a JSON object into a struct
DecodeRecord ==
    /\ codec = NoCodec
    /\ \E name \in StructTypes :
        \E j \in JsonInputs(name) :
            codec' = [op |-> "decode_record", type |-> name, input |-> j,
                      out |-> FromJson(StructT(name), j)]
    /\ UNCHANGED clientVars

\* the Order documents of the provider: the encoded Order values, and the
\* response of a capture, whose first purchase unit reports its captures
\* and no authorizations or refunds
CapturedOrderJson ==
    LET payments == [Sample(StructT("PaymentCollection"), FALSE) EXCEPT
                        !.captures = <<Sample(StructT("Capture"), FALSE)>>]
        unit == [Sample(StructT("PurchaseUnit"), FALSE) EXCEPT
                    !.payments = Some(payments)]
        order == [Sample(StructT("Order"), FALSE) EXCEPT
                     !.purchase_units = Some(<<unit>>)]
        full == ToJson(StructT("Order"), order)
        payments_json == full.fields.purchase_units.items[1].fields.payments
    IN  [full EXCEPT !.fields.purchase_units.items[1].fields.payments =
            Without(Without(payments_json, "authorizations"), "refunds")]

\* texts given as a timestamp: RFC 3339 in the forms chrono reads (UTC or an
\* offset, with a fraction, in lower case, with a space, with white space
\* of Unicode, with the minus sign U+2212, across a day, a year and a leap
\* second) and texts it rejects
TimestampTexts ==
    {"2021-01-01T00:00:00Z", "2021-01-01T00:00:01Z", "1969-12-31T23:59:59Z",
     "2020-02-29T23:59:59Z", "2020-12-31T23:59:60Z",
     "2021-06-30T12:00:00+00:00", "2021-06-30T10:00:00-02:00",
     "2021-01-01T01:00:00+01:00", "2021-01-01T00:30:00+01:00",
     "2021-06-30T12:00:00+0200",
     "2021-06-30T12:00:00 UTC",
     "2021-06-30T12:00:00.000Z", "2021-06-30T12:00:00.5Z",
     "2021-06-30T12:00:00.123456Z", "2021-06-30T12:00:00.1234567891Z",
     "2021-06-30 12:00:00Z", "2021-06-30t12:00:00z", " 2021-06-30T12:00:00Z",
     "\f2021-06-30T12:00:00Z", "\\u000b2021-06-30T12:00:00Z",
     "2021-06-30T12:00:00\\u00a0Z", "2021-06-30T12:00:00+02\\u300000",
     "2021-06-30T12:00:00Z\\u2029", "2021-06-30T10:00:00\\u221202:00",
     "\\u22120001-01-01T00:00:00Z", "2021-06-30\\u00a012:00:00Z",
     "2021-06-30T12:00:00\\u200bZ",
     "2021-6-30T12:00:00Z", "-0001-01-01T00:00:00Z", "+12021-06-30T12:00:00Z",
     "yesterday", "", "1625054400", "2021-06-30",
     "2021-02-29T00:00:00Z", "2021-13-01T00:00:00Z", "2021-06-30T24:00:00Z",
     "2021-06-30T12:60:00Z", "2021-06-30T12:00:61Z", "2021-06-30X12:00:00Z",
     "2021-06-30T12:00:00", "2021-06-30T12:00:00.Z", "2021-06-30T12:00:00+02",
     "2021-06-30T12:00:00+02:60", "2021-06-30T12:00:00+24:00",
     "2021-06-30T12:00:00Zx"}

\* an Order document with this text for its create_time
TimedOrderJson(text) ==
    JObj([id |-> JStr("8XY"), status |-> JStr("CREATED"), links |-> JArr(<<>>),
          create_time |-> JStr(text)])

OrderJsonInputs ==
    JsonInputs("Order") \cup {CapturedOrderJson}
        \cup {TimedOrderJson(text) : text \in TimestampTexts}

\* serde_json::from_str::<Order> followed by serde_json::to_string
RoundTripOrder ==
    /\ codec = NoCodec
    /\ \E j \in OrderJsonInputs :
        LET d == FromJson(StructT("Order"), j)
        IN  codec' = [op |-> "round_trip", type |-> "Order", input |-> j,
                      decoded |-> d,
                      output |-> IF d.ok THEN ToJson(StructT("Order"), d.value)
                                 ELSE JNull]
    /\ UNCHANGED clientVars

\* Documents that are not the object a struct is written as: the object
\* with every member present and one member replaced by a string or by an
\* array of a number, or with one member written twice; the object with a
\* member the struct does not declare, written twice; and the array of the
\* members in the order of their declaration, whole, without its last
\* element, and with one element more.
OddInputsOf(S) ==
    UNION {{[full EXCEPT !.fields[S.fields[i].json] = v] :
                i \in 1..Len(S.fields), v \in {JStr("x"), JArr(<<JNum(0)>>)}}
           \cup {Repeating(full, {S.fields[i].json}) : i \in 1..Len(S.fields)}
           \cup {Repeating(JObj([n \in DOMAIN full.fields \cup {"not_declared"} |->
                                    IF n \in DOMAIN full.fields THEN full.fields[n]
                                    ELSE JNull]),
                            {"not_declared"})}
           \cup UNION {{JArr(positional),
                        JArr(SubSeq(positional, 1, Len(positional) - 1)),
                        JArr(Append(positional, JNull))} :
                    positional \in {<<>> \o [i \in 1..Len(S.fields) |->
                                               full.fields[S.fields[i].json]]}} :
           full \in {StructToJson(S, ShallowOf(S.fields))}}

OddInputs(name) == OddInputsOf(Structs[name])

\* serde_json::from_str of such a document into a struct
DecodeOdd ==
    /\ codec = NoCodec
    /\ \E name \in StructTypes :
        \E j \in OddInputs(name) :
            codec' = [op |-> "decode_odd", type |-> name, input |-> j,
                      out |-> FromJson(StructT(name), j)]
    /\ UNCHANGED clientVars

\* serde_json::from_str of an object with one member into an enum: the
\* externally tagged form of a variant
DecodeEnumMap ==
    /\ codec = NoCodec
    /\ \E e \in EnumTypes, v \in {JNull, JStr("x")} :
        \E token \in {SerializeEnum(e, x) : x \in Enums[e].variants} \cup {"x"} :
            LET j == JObj([n \in {token} |-> v])
            IN  codec' = [op |-> "decode_enum_map", type |-> e, input |-> j,
                          out |-> FromJson(EnumT(e), j)]
    /\ UNCHANGED clientVars

\* the value is dropped; the next one can be encoded or decoded
CodecDone ==
    /\ codec # NoCodec
    /\ codec' = NoCodec
    /\ UNCHANGED clientVars

CodecNext ==
    \/ EncodeEnum
    \/ DecodeEnum
    \/ EncodeRecord
    \/ DecodeRecord
    \/ RoundTripOrder
    \/ DecodeOdd
    \/ DecodeEnumMap
    \/ CodecDone

CodecSpec == Init /\ [][CodecNext]_vars


(* ============================== properties ============================= *)

\* The token sequence is the text of a JSON array of objects: "[", then
\* objects separated by single commas, then "]".
IsJsonArray(text) ==
    /\ Len(text) >= 2
    /\ text[1].t = "["
    /\ text[Len(text)].t = "]"
    /\ LET n == Len(text) - 2 IN
         \/ n = 0
         \/ /\ n % 2 = 1
            /\ \A k \in 1..n :
                 text[k + 1].t = (IF k % 2 = 1 THEN "object" ELSE ",")

\* the elements of such an array, in order
ArrayElems(text) == [k \in 1..((Len(text) - 1) \div 2) |-> text[2 * k]]

\* an update_order call has sent its request
UpdateSent == op = "update_order" /\ pc \in {"awaiting", "returned"}

\* the text of the PATCH body of the update_order call in progress
SentPatchText == sent[1].body.text

\* the number of units the caller supplied (0 when purchase_units is None)
SuppliedUnits ==
    IF args.purchase_units.some THEN Len(args.purchase_units.value) ELSE 0

\* the path the provider expects for a unit
ExpectedUnitPath(unit) ==
    IF unit.reference_id.some
    THEN "/purchase_units/@reference_id='" \o unit.reference_id.value \o "'"
    ELSE "/purchase_units/@reference_id='default'"

\* C1: the PATCH body of update_order is an array of exactly
\* (1 if intent is supplied) + (number of supplied purchase units) replace
\* operations, sent in one PATCH call.
C1_OperationCount ==
    UpdateSent =>
        /\ Len(sent) = 1
        /\ sent[1].method = "PATCH"
        /\ IsJsonArray(SentPatchText)
        /\ Len(ArrayElems(SentPatchText)) =
               (IF args.intent.some THEN 1 ELSE 0) + SuppliedUnits
        /\ \A k \in DOMAIN ArrayElems(SentPatchText) :
               ArrayElems(SentPatchText)[k].op = "replace"

\* C2: for every purchase unit passed to update_order the PATCH body holds a
\* replace operation whose path names the unit's own reference id, or
\* 'default' when it has none.
C2_UnitPaths ==
    (UpdateSent /\ args.purchase_units.some) =>
        \A i \in DOMAIN args.purchase_units.value :
            \E k \in DOMAIN SentPatchText :
                /\ SentPatchText[k].t = "object"
                /\ SentPatchText[k].op = "replace"
                /\ SentPatchText[k].path =
                       ExpectedUnitPath(args.purchase_units.value[i])

\* C3: update_order with an intent and purchase_units = None sends a
\* single-element array: one replace operation at /intent whose value is
\* "CAPTURE" for Intent::Capture and "AUTHORIZE" for Intent::Authorize.
C3_IntentOnly ==
    (UpdateSent /\ args.intent.some /\ ~args.purchase_units.some) =>
        /\ Len(SentPatchText) = 3
        /\ SentPatchText[1].t = "["
        /\ SentPatchText[3].t = "]"
        /\ SentPatchText[2].t = "object"
        /\ SentPatchText[2].op = "replace"
        /\ SentPatchText[2].path = "/intent"
        /\ args.intent.value = "Capture" => SentPatchText[2].value = "CAPTURE"
        /\ args.intent.value = "Authorize" => SentPatchText[2].value = "AUTHORIZE"

C3_Witness ==
    /\ UpdateSent
    /\ args.intent = Some("Capture")
    /\ ~args.purchase_units.some
    /\ Len(SentPatchText) = 3
    /\ SentPatchText[2].value = "CAPTURE"

\* C4: update_order with neither intent nor purchase units still issues one
\* PATCH request, whose body is the empty array.
C4_NothingToUpdate ==
    (UpdateSent /\ ~args.intent.some /\ ~args.purchase_units.some) =>
        /\ Len(sent) = 1
        /\ sent[1].method = "PATCH"
        /\ sent[1].body.kind = "text"
        /\ Len(SentPatchText) = 2
        /\ SentPatchText[1].t = "["
        /\ SentPatchText[2].t = "]"

C4_Witness ==
    /\ UpdateSent
    /\ args.intent = None
    /\ args.purchase_units = None
    /\ Len(sent) = 1
    /\ sent[1].method = "PATCH"
    /\ Len(SentPatchText) = 2


\* the operations that return an Order
OrderOps ==
    {"create_order", "show_order_details", "capture_order", "authorize_order"}

\* the call in progress got a response and has returned
GotResponse == pc = "returned" /\ response.kind = "response"

\* the status of that response is a 2xx
Is2xx == response.status \in 200..299

\* the instant each timestamp of the Order bodies denotes: midnight UTC of
\* 2021-01-01, and 10:00 two hours behind UTC, which is noon UTC, of
\* 2021-06-30
TimestampOf(text) ==
    CASE text = "2021-01-01T00:00:00Z" -> Instant(18628, 0, 0)
      [] text = "\f2021-06-30T10:00:00\\u221202:00" -> Instant(18808, 43200, 0)

\* the Order value is the one the JSON object f describes
ParsedFrom(order, f) ==
    /\ order.id = f.id.s
    /\ OrderStatusToken[order.status] = f.status.s
    /\ order.links = f.links.items
    /\ IF "intent" \in DOMAIN f
       THEN order.intent.some /\ IntentToken[order.intent.value] = f.intent.s
       ELSE ~order.intent.some
    /\ order.payer.some <=> "payer" \in DOMAIN f
    /\ order.purchase_units.some <=> "purchase_units" \in DOMAIN f
    /\ IF "create_time" \in DOMAIN f
       THEN /\ order.create_time.some
            /\ order.create_time.value = TimestampOf(f.create_time.s)
       ELSE ~order.create_time.some

\* the result is the API-error variant carrying the error the object f
\* describes
IsApiErrorOf(r, f) ==
    /\ r.kind = "ApiError"
    /\ r.error.name = f.name.s
    /\ r.error.message = f.message.s
    /\ r.error.debug_id = f.debug_id.s

\* C5: for create_order, show_order_details, capture_order and
\* authorize_order, a 2xx response with a well-formed Order body returns Ok
\* with the Order parsed from it, and a non-2xx response with a well-formed
\* provider error returns the API-error variant carrying that error.
C5_OrderSplit ==
    (GotResponse /\ op \in OrderOps) =>
        /\ (Is2xx /\ response.body \in OrderBodies) =>
               (result.kind = "Ok" /\ ParsedFrom(result.value, response.body.fields))
        /\ (~Is2xx /\ response.body \in ErrorBodies) =>
               IsApiErrorOf(result, response.body.fields)

C5_Witness ==
    /\ GotResponse
    /\ op = "create_order"
    /\ response.status = 201
    /\ response.body \in OrderBodies
    /\ result.kind = "Ok"
    /\ result.value.status = "Created"

\* C6: update_order returns Ok(()) on every 2xx status whatever the body is,
\* and the API-error variant on a non-2xx status with a well-formed provider
\* error body.
C6_UpdateResult ==
    (GotResponse /\ op = "update_order") =>
        /\ Is2xx => result = [kind |-> "Ok", value |-> "unit"]
        /\ (~Is2xx /\ response.body \in ErrorBodies) =>
               IsApiErrorOf(result, response.body.fields)

C6_Witness ==
    /\ GotResponse
    /\ op = "update_order"
    /\ response.status = 299
    /\ response.body = NotJson
    /\ result.kind = "Ok"

(* The shape of a body, told from the JSON document alone. *)

\* the token a JSON value gives for a unit variant: the string, or the name
\* of the one member, written once and null, of an object
GivenToken(v) ==
    IF v.j = "string" THEN Some(v.s)
    ELSE IF /\ v.j = "object"
            /\ Cardinality(DOMAIN v.fields) = 1
            /\ v.twice = {}
            /\ \A n \in DOMAIN v.fields : v.fields[n].j = "null"
    THEN Some(CHOOSE n \in DOMAIN v.fields : TRUE)
    ELSE None

\* the JSON value has the form of a value of the type t.  In the documented
\* form a variant is a string and a record an object; the derived decoders
\* also read (lenient) a variant from an object with the token for its one
\* member and a record from the array of its fields.
FormFits(t, v, lenient) ==
    CASE t.k = "string" -> v.j = "string"
      [] t.k = "datetime" -> v.j = "string" /\ ParseDateTime(v.s).ok
      [] t.k = "bool" -> v.j = "bool"
      [] t.k = "i64" -> v.j = "number"
      [] t.k = "opaque" -> v.j # "null"
      [] t.k = "enum" ->
             /\ lenient \/ v.j = "string"
             /\ GivenToken(v).some
             /\ \E x \in Enums[t.name].variants :
                    SerializeEnum(t.name, x) = GivenToken(v).value
      [] t.k = "vec" -> v.j = "array"
      [] t.k = "struct" -> v.j = "object" \/ (lenient /\ v.j = "array")

\* the JSON value has the form of the field f: null for an Option, or the
\* form of its type
FieldFits(f, v, lenient) ==
    (f.optional /\ v.j = "null") \/ FormFits(f.type, v, lenient)

\* The body has the shape of the record with the fields F: an object that
\* writes no declared member twice, carries every member that is neither an
\* Option nor defaulted, and gives every declared member it carries the form
\* of its field; or (lenient) an array that gives the fields in the order of
\* their declaration, up to the first that is defaulted.
HasShape(F, body, lenient) ==
    \/ /\ body.j = "object"
       /\ \A i \in 1..Len(F) :
              /\ F[i].json \notin body.twice
              /\ IF F[i].json \in DOMAIN body.fields
                 THEN FieldFits(F[i], body.fields[F[i].json], lenient)
                 ELSE F[i].optional \/ F[i].default
    \/ /\ lenient
       /\ body.j = "array"
       /\ Len(body.items) <= Len(F)
       /\ \A i \in 1..Len(F) :
              IF i <= Len(body.items)
              THEN FieldFits(F[i], body.items[i], lenient)
              ELSE F[i].default

\* the body is an Order as the provider documents it
DocumentedOrder(body) == HasShape(Structs["Order"].fields, body, FALSE)

\* the body is a verification as the provider documents it
DocumentedVerification(body) ==
    HasShape(Structs["Verification"].fields, body, FALSE)

\* the body is a provider error: an object with name, message and debug_id,
\* each a string written once
DocumentedError(body) ==
    /\ body.j = "object"
    /\ \A n \in {"name", "message", "debug_id"} :
           /\ n \in DOMAIN body.fields
           /\ n \notin body.twice
           /\ body.fields[n].j = "string"

\* the body is a JSON object that carries verification_status, written once
HasVerificationStatus(body) ==
    /\ body.j = "object"
    /\ "verification_status" \in DOMAIN body.fields
    /\ "verification_status" \notin body.twice

\* the body is such an object, and its verification_status is the string s
VerificationStatusIs(body, s) ==
    HasVerificationStatus(body) /\ body.fields.verification_status = JStr(s)

\* the verification status a body gives: that of its verification_status
\* member, or that of the one element of an array
StatusGiven(body) ==
    IF HasVerificationStatus(body)
    THEN GivenToken(body.fields.verification_status)
    ELSE IF body.j = "array" /\ Len(body.items) = 1
    THEN GivenToken(body.items[1])
    ELSE None

\* the body gives one of the two verification statuses
GivesVerification(body) ==
    StatusGiven(body).some /\ StatusGiven(body).value \in {"SUCCESS", "FAILURE"}

\* C7 in its original statement: verify_signature returns Ok exactly when the response
\* is 2xx with a well-formed verification body (the object the provider
\* documents), the status returned is the provider's; a non-2xx response with
\* a well-formed provider error returns the API-error variant.
C7_VerifyResult_documented ==
    (pc = "returned" /\ op = "verify_signature") =>
        /\ result.kind = "Ok" <=>
               (response.kind = "response" /\ Is2xx
                    /\ DocumentedVerification(response.body))
        /\ result.kind = "Ok" =>
               VerificationStatusToken[result.value.verification_status] =
                   response.body.fields.verification_status.s
        /\ (response.kind = "response" /\ ~Is2xx /\ response.body \in ErrorBodies) =>
               IsApiErrorOf(result, response.body.fields)

\* C7: verify_signature returns Ok exactly when the response is 2xx and its
\* body gives a verification status: in the documented object, in a
\* one-element array, or as an object with the token for its one member.
\* The status returned is the one the body gives and does not depend on the
\* payload; a non-2xx response with a well-formed provider error returns the
\* API-error variant.
C7_VerifyResult ==
    (pc = "returned" /\ op = "verify_signature") =>
        /\ result.kind = "Ok" <=>
               (response.kind = "response" /\ Is2xx
                    /\ GivesVerification(response.body))
        /\ (response.kind = "response" /\ Is2xx
                /\ DocumentedVerification(response.body)) => result.kind = "Ok"
        /\ result.kind = "Ok" =>
               VerificationStatusToken[result.value.verification_status] =
                   StatusGiven(response.body).value
        /\ (response.kind = "response" /\ ~Is2xx /\ response.body \in ErrorBodies) =>
               IsApiErrorOf(result, response.body.fields)

\* the provider answered a payload that carries a good signature with
\* FAILURE, in a one-element array, and the call returned Failure
C7_Witness ==
    /\ GotResponse
    /\ op = "verify_signature"
    /\ args.signature.transmission_sig = "sig-good"
    /\ response.status = 200
    /\ response.body = JArr(<<JStr("FAILURE")>>)
    /\ result.kind = "Ok"
    /\ result.value.verification_status = "Failure"

\* C8 in its original statement: decoding a verification response maps "SUCCESS" to
\* Success and "FAILURE" to Failure, and fails for every other string and
\* for a body without verification_status.
C8_VerificationDecoding_member ==
    (GotResponse /\ op = "verify_signature" /\ Is2xx) =>
        /\ VerificationStatusIs(response.body, "SUCCESS") =>
               result = [kind |-> "Ok", value |-> [verification_status |-> "Success"]]
        /\ VerificationStatusIs(response.body, "FAILURE") =>
               result = [kind |-> "Ok", value |-> [verification_status |-> "Failure"]]
        /\ (HasVerificationStatus(response.body)
               /\ response.body.fields.verification_status.j = "string"
               /\ response.body.fields.verification_status.s
                      \notin {"SUCCESS", "FAILURE"}) =>
               result = [kind |-> "HttpError", cause |-> "decode"]
        /\ ~HasVerificationStatus(response.body) =>
               result = [kind |-> "HttpError", cause |-> "decode"]

\* C8: decoding a verification response that is a JSON object maps
\* verification_status "SUCCESS" to Success and "FAILURE" to Failure, and
\* fails for every other string, for an object without verification_status
\* and for one that writes it twice.  A body that is no object fails too,
\* unless it is an array of one element: that is read as the fields of
\* Verification in their order and decodes as the status its element gives.
C8_VerificationDecoding ==
    (GotResponse /\ op = "verify_signature" /\ Is2xx) =>
        /\ VerificationStatusIs(response.body, "SUCCESS") =>
               result = [kind |-> "Ok", value |-> [verification_status |-> "Success"]]
        /\ VerificationStatusIs(response.body, "FAILURE") =>
               result = [kind |-> "Ok", value |-> [verification_status |-> "Failure"]]
        /\ (HasVerificationStatus(response.body)
               /\ response.body.fields.verification_status.j = "string"
               /\ response.body.fields.verification_status.s
                      \notin {"SUCCESS", "FAILURE"}) =>
               result = [kind |-> "HttpError", cause |-> "decode"]
        /\ (~HasVerificationStatus(response.body) /\ response.body.j # "array") =>
               result = [kind |-> "HttpError", cause |-> "decode"]
        /\ response.body.j = "array" =>
               IF Len(response.body.items) = 1
                      /\ GivenToken(response.body.items[1]) \in {Some("SUCCESS"), Some("FAILURE")}
               THEN /\ result.kind = "Ok"
                    /\ VerificationStatusToken[result.value.verification_status] =
                           GivenToken(response.body.items[1]).value
               ELSE result = [kind |-> "HttpError", cause |-> "decode"]

\* the array ["SUCCESS"], which has no verification_status, decoded
C8_Witness ==
    /\ GotResponse
    /\ op = "verify_signature"
    /\ Is2xx
    /\ ~HasVerificationStatus(response.body)
    /\ response.body = JArr(<<JStr("SUCCESS")>>)
    /\ result = [kind |-> "Ok", value |-> [verification_status |-> "Success"]]

\* the body of the response is not the documented object that the operation
\* expects on its status
DocumentedMismatch ==
    \/ Is2xx /\ op \in OrderOps /\ ~DocumentedOrder(response.body)
    \/ Is2xx /\ op = "verify_signature" /\ ~DocumentedVerification(response.body)
    \/ ~Is2xx /\ ~DocumentedError(response.body)

\* C9 in its original statement: a body that matches neither the expected success
\* shape (on 2xx) nor the error shape (on non-2xx) makes the call return an
\* error, never Ok and never a defaulted value.
C9_MismatchSurfaced_documented ==
    (GotResponse /\ DocumentedMismatch) =>
        result.kind \in {"ApiError", "HttpError"}

\* the body of the response has not the shape of the record the operation
\* decodes on its status, in the documented form or in one of the two other
\* forms the derived decoders read
BodyMismatch ==
    \/ Is2xx /\ op \in OrderOps
           /\ ~HasShape(Structs["Order"].fields, response.body, TRUE)
    \/ Is2xx /\ op = "verify_signature"
           /\ ~HasShape(Structs["Verification"].fields, response.body, TRUE)
    \/ ~Is2xx /\ ~DocumentedError(response.body)

\* C9: a body that has neither the shape of the expected record (on 2xx)
\* nor the error shape (on non-2xx) makes the call return the decoding
\* error, never Ok and never a defaulted value.  The shape of a record is
\* the documented object, or the array of its fields in their order, with a
\* variant given as a string or as an object with the token for its one
\* member.
C9_MismatchSurfaced ==
    (GotResponse /\ BodyMismatch) =>
        result = [kind |-> "HttpError", cause |-> "decode"]

\* a 201 whose body is an Order that writes id twice returned the decoding
\* error
C9_Witness ==
    /\ GotResponse
    /\ op = "create_order"
    /\ response.status = 201
    /\ response.body.j = "object"
    /\ "id" \in DOMAIN response.body.fields
    /\ "id" \in response.body.twice
    /\ BodyMismatch
    /\ result = [kind |-> "HttpError", cause |-> "decode"]

\* the call ended in a failure: the transport failed, the status was not a
\* 2xx, or a body did not decode
CallFailed ==
    \/ response.kind \in {"error", "broken"}
    \/ response.kind = "response" /\ (~Is2xx \/ BodyMismatch)

\* C10: every operation sends exactly one request per call whatever the
\* outcome; after a failure no second request is sent and the failure is
\* returned.  A call still suspended in setup_headers has sent nothing yet.
C10_OneRequestPerCall ==
    /\ pc \in {"awaiting", "reading", "returned"} => Len(sent) = 1
    /\ pc \in {"idle", "preparing"} => Len(sent) = 0
    /\ (pc = "returned" /\ CallFailed) => result.kind \in {"ApiError", "HttpError"}

C10_Witness ==
    /\ pc = "returned"
    /\ calls = 2
    /\ op = "capture_order"
    /\ response.kind = "error"
    /\ result.kind = "HttpError"
    /\ Len(sent) = 1


\* the base URL of the provider for the environment of the client
Base == IF live THEN "https://api.paypal.com" ELSE "https://api.sandbox.paypal.com"

\* an operation of the given name has sent its request
Sent(name) == op = name /\ pc \in {"awaiting", "returned"}

\* C11: show_order_details(id) issues a GET whose URL is exactly the base
\* endpoint followed by /v2/checkout/orders/{id}, with nothing after the id.
C11_ShowOrderUrl ==
    Sent("show_order_details") =>
        /\ sent[1].method = "GET"
        /\ sent[1].url = Base \o "/v2/checkout/orders/" \o args.order_id

\* C12: create_order, capture_order, authorize_order, update_order and
\* verify_signature each issue the method and path of the provider's
\* endpoint for them, and no other.
C12_MethodsAndPaths ==
    /\ Sent("create_order") =>
           (sent[1].method = "POST" /\ sent[1].url = Base \o "/v2/checkout/orders")
    /\ Sent("capture_order") =>
           (sent[1].method = "POST"
               /\ sent[1].url =
                      Base \o "/v2/checkout/orders/" \o args.order_id \o "/capture")
    /\ Sent("authorize_order") =>
           (sent[1].method = "POST"
               /\ sent[1].url =
                      Base \o "/v2/checkout/orders/" \o args.order_id \o "/authorize")
    /\ Sent("update_order") =>
           (sent[1].method = "PATCH"
               /\ sent[1].url = Base \o "/v2/checkout/orders/" \o args.id)
    /\ Sent("verify_signature") =>
           (sent[1].method = "POST"
               /\ sent[1].url = Base \o "/v1/notifications/verify-webhook-signature")

C12_Witness ==
    /\ Sent("capture_order")
    /\ live
    /\ args.order_id = "8XY"
    /\ sent[1].method = "POST"
    /\ sent[1].url = "https://api.paypal.com/v2/checkout/orders/8XY/capture"

\* the operations that take header parameters from the caller
HeaderOps == {"create_order", "capture_order", "authorize_order", "verify_signature"}

\* C13: for every operation that accepts header parameters, the request is
\* built with the header parameters the caller supplied.
C13_CallerHeadersUsed ==
    (op \in HeaderOps /\ pc \in {"awaiting", "returned"}) =>
        sent[1].header_params = args.header_params

\* C14: every PATCH request of update_order is built with content type
\* application/json and every other header parameter at its default.
C14_PatchHeaders ==
    Sent("update_order") =>
        /\ sent[1].method = "PATCH"
        /\ sent[1].header_params.content_type =
               [some |-> TRUE, value |-> "application/json"]
        /\ sent[1].header_params.request_id = [some |-> FALSE]

C14_Witness ==
    /\ Sent("update_order")
    /\ args.intent.some
    /\ args.purchase_units.some
    /\ Len(args.purchase_units.value) = 2
    /\ sent[1].header_params.content_type.some
    /\ sent[1].header_params.content_type.value = "application/json"


\* the upper-snake-case token of every variant: its words in upper case,
\* joined by single underscores
UpperSnakeToken ==
    [Capture |-> "CAPTURE",
     Authorize |-> "AUTHORIZE",
     BR_CPF |-> "BR_CPF",
     BR_CNPJ |-> "BR_CNPJ",
     Instant |-> "INSTANT",
     Delayed |-> "DELAYED",
     Digital |-> "DIGITAL",
     Physical |-> "PHYSICAL",
     Created |-> "CREATED",
     Captured |-> "CAPTURED",
     Denied |-> "DENIED",
     Expired |-> "EXPIRED",
     PartiallyExpired |-> "PARTIALLY_EXPIRED",
     PartiallyCaptured |-> "PARTIALLY_CAPTURED",
     Voided |-> "VOIDED",
     Pending |-> "PENDING",
     PendingReview |-> "PENDING_REVIEW",
     Completed |-> "COMPLETED",
     Declined |-> "DECLINED",
     PartiallyRefunded |-> "PARTIALLY_REFUNDED",
     Refunded |-> "REFUNDED",
     BuyerComplaint |-> "BUYER_COMPLAINT",
     Chargeback |-> "CHARGEBACK",
     Echeck |-> "ECHECK",
     InternationalWithdrawal |-> "INTERNATIONAL_WITHDRAWAL",
     Other |-> "OTHER",
     ReceivingPreferenceMandatesManualAction |-> "RECEIVING_PREFERENCE_MANDATES_MANUAL_ACTION",
     TransactionApprovedAwaitingFunding |-> "TRANSACTION_APPROVED_AWAITING_FUNDING",
     Unilateral |-> "UNILATERAL",
     VerificationRequired |-> "VERIFICATION_REQUIRED",
     Cancelled |-> "CANCELLED",
     Login |-> "LOGIN",
     Billing |-> "BILLING",
     NoPreference |-> "NO_PREFERENCE",
     GetFromFile |-> "GET_FROM_FILE",
     NoShipping |-> "NO_SHIPPING",
     SetProvidedAddress |-> "SET_PROVIDED_ADDRESS",
     Continue |-> "CONTINUE",
     PayNow |-> "PAY_NOW",
     Unrestricted |-> "UNRESTRICTED",
     ImmediatePaymentRequired |-> "IMMEDIATE_PAYMENT_REQUIRED",
     Visa |-> "VISA",
     Mastercard |-> "MASTERCARD",
     Discover |-> "DISCOVER",
     Amex |-> "AMEX",
     Solo |-> "SOLO",
     JCB |-> "JCB",
     Star |-> "STAR",
     Delta |-> "DELTA",
     Switch |-> "SWITCH",
     Maestro |-> "MAESTRO",
     CbNationale |-> "CB_NATIONALE",
     Configoga |-> "CONFIGOGA",
     Confidis |-> "CONFIDIS",
     Electron |-> "ELECTRON",
     Cetelem |-> "CETELEM",
     ChinaUnionPay |-> "CHINA_UNION_PAY",
     Credit |-> "CREDIT",
     Debit |-> "DEBIT",
     Prepaid |-> "PREPAID",
     Unknown |-> "UNKNOWN",
     Saved |-> "SAVED",
     Approved |-> "APPROVED",
     Eligable |-> "ELIGABLE",
     Success |-> "SUCCESS",
     Failure |-> "FAILURE"]

\* C15: for every enum type, encoding a variant yields its upper-snake-case
\* token, and decoding accepts exactly the tokens of the variants of the
\* type and fails on every other string.
C15_EnumTokens ==
    /\ codec.op = "encode_enum" =>
           codec.token = UpperSnakeToken[codec.variant]
    /\ codec.op = "decode_enum" =>
           /\ codec.out.ok <=>
                  \E v \in Enums[codec.type].variants :
                      UpperSnakeToken[v] = codec.input
           /\ codec.out.ok => UpperSnakeToken[codec.out.value] = codec.input

\* the fields of the struct a codec step is about
CodecFields == Structs[codec.type].fields

\* the input of a decoding carries every member that the struct declares
\* neither as an Option nor with #[serde(default)]
RequiredPresent ==
    \A i \in 1..Len(CodecFields) :
        CodecFields[i].optional \/ CodecFields[i].default
            \/ CodecFields[i].json \in DOMAIN codec.input.fields

\* C16: for every record type, an optional field that is absent is left out
\* of the encoded JSON object and is never written as null, and an optional
\* field missing from the input decodes to absent without failing.
C16_AbsentOptionals ==
    /\ codec.op = "encode_record" =>
           \A i \in 1..Len(CodecFields) :
               (CodecFields[i].optional /\ ~codec.value[CodecFields[i].name].some)
                   => CodecFields[i].json \notin DOMAIN codec.json.fields
    /\ (codec.op = "decode_record" /\ RequiredPresent) =>
           /\ codec.out.ok
           /\ \A i \in 1..Len(CodecFields) :
                  (CodecFields[i].optional
                       /\ CodecFields[i].json \notin DOMAIN codec.input.fields)
                      => ~codec.out.value[CodecFields[i].name].some

\* C17: an Order document that decodes is reproduced by encoding the decoded
\* value: the same members with the same values at every depth, a null
\* member counting as an omitted one.
C17_OrderRoundTrip ==
    (codec.op = "round_trip" /\ codec.decoded.ok) =>
        Compact(codec.output) = Compact(codec.input)

\* the records that carry a status and a status-detail record
StatusRecords == {"Capture", "Refund", "AuthorizationWithData"}

\* a document with a status and no status_details
StatusOnly ==
    /\ "status" \in DOMAIN codec.input.fields
    /\ "status_details" \notin DOMAIN codec.input.fields

\* C18: for Capture, Refund and Authorization, a document carrying a valid
\* status and no status_details decodes, and the detail of the decoded
\* record is absent.
C18_StatusDetailsOptional ==
    (codec.op = "decode_record" /\ codec.type \in StatusRecords /\ StatusOnly) =>
        /\ codec.out.ok
        /\ codec.out.value.status_details = None

\* the operation in progress returned an error of either kind
IsErr == result.kind \in {"ApiError", "HttpError"}

\* C19: no operation rejects its arguments locally.  Every call that was
\* started builds its request and, once setup_headers has returned, has
\* handed it to the transport, create_order with an empty purchase-unit list
\* included; an operation returns an error only after its request was sent
\* and the transport answered or failed.
C19_NoLocalRejection ==
    /\ pc = "preparing" => (request # NoRequest /\ result = NoResult)
    /\ (op # "none" /\ pc # "preparing") => Len(sent) >= 1
    /\ (op = "create_order" /\ Len(sent) >= 1) =>
           /\ sent[1].method = "POST"
           /\ sent[1].body = JsonBody(ToJsonOrderPayload(args.order))
    /\ IsErr => (Len(sent) >= 1 /\ response # NoResponse)

\* create_order with no purchase unit was sent and refused by the provider
C19_Witness ==
    /\ pc = "returned"
    /\ op = "create_order"
    /\ Len(args.order.purchase_units) = 0
    /\ Len(sent[1].body.value.purchase_units) = 0
    /\ response.kind = "response"
    /\ response.status = 422
    /\ result.kind = "ApiError"

\* C20: an operation returns the API-error variant exactly when its request
\* was sent, a response with a non-2xx status arrived and its body is a
\* provider error; when the transport failed, or the body of a 2xx or of a
\* non-2xx response did not decode, it returns the other error kind.
C20_ApiErrorIff ==
    pc = "returned" =>
        /\ result.kind = "ApiError" <=>
               (Len(sent) >= 1 /\ response.kind = "response" /\ ~Is2xx
                    /\ DocumentedError(response.body))
        /\ response.kind \in {"error", "broken"} => result.kind = "HttpError"
        /\ (response.kind = "response" /\ Is2xx) =>
               result.kind \in {"Ok", "HttpError"}
        /\ (response.kind = "response" /\ BodyMismatch) =>
               result.kind = "HttpError"

\* authorize_order was answered 500 with a provider error and returned it
C20_Witness ==
    /\ GotResponse
    /\ op = "authorize_order"
    /\ Len(sent) = 1
    /\ response.status = 500
    /\ response.body \in ErrorBodies
    /\ result.kind = "ApiError"
    /\ result.error.name = response.body.fields.name.s

\* update_order was called with purchase_units = Some(empty list)
EmptyUnitsUpdate ==
    /\ op = "update_order"
    /\ args.purchase_units.some
    /\ Len(args.purchase_units.value) = 0

\* C21: update_order called with Some(empty list) does not panic on
\* p_units.len() - 1, in a build with overflow checks or without, and sends
\* the PATCH body that the same call with purchase_units = None sends.
C21_EmptyUnitsNoUnderflow ==
    EmptyUnitsUpdate =>
        /\ pc # "panicked"
        /\ request.body = TextBody(PatchBody(args.intent, None))
        /\ pc # "preparing" => sent = <<request>>

\* the call with an intent and an empty list sent the intent operation alone
C21_Witness ==
    /\ EmptyUnitsUpdate
    /\ pc = "awaiting"
    /\ args.intent = Some("Capture")
    /\ Len(sent) = 1
    /\ sent[1].body.text =
           <<LBracket, ReplaceOp("/intent", "CAPTURE"), RBracket>>

=============================================================================
